---- MODULE Spec2Model ----
(***************************************************************************)
(* Model of the FoundationDB Kubernetes operator's reconciliation engine:  *)
(*   - the Reconcile pipeline of foundationdbcluster_controller.go         *)
(*     (setDefaultValues, updateConfigMap, addPods,                        *)
(*      generateInitialClusterFile, updateDatabaseConfiguration) with its  *)
(*     per-pod goroutines and channels;                                    *)
(*   - the ReplaceMisconfiguredPods reconciliation step.                   *)
(* Strings that the code builds or rewrites character by character are     *)
(* sequences of tokens, so that sanitizing and concatenation are computed. *)
(***************************************************************************)
EXTENDS Integers, Sequences, FiniteSets, TLC

\* ------------------------------------------------------------------ bounds
\* Largest desired storage process count a cluster spec may carry.
MaxProcessCount == 4

\* Number of instances ReplaceMisconfiguredPods finds.
MaxInstances == 2

\* ------------------------------------------------------- program constants
\* cluster.DesiredCoordinatorCount() for the default replication mode.
DesiredCoordinatorCount == 3

\* The port appended to every coordinator address (":4500").
PortSuffix == ":4500"

\* The characters connectionStringNameRegex leaves alone: [A-Za-z0-9_].
AllowedChars ==
  { "a","b","c","d","e","f","g","h","i","j","k","l","m",
    "n","o","p","q","r","s","t","u","v","w","x","y","z",
    "A","B","C","D","E","F","G","H","I","J","K","L","M",
    "N","O","P","Q","R","S","T","U","V","W","X","Y","Z",
    "0","1","2","3","4","5","6","7","8","9","_" }

\* Cluster names the model draws from (sequences of characters): one with
\* lower case, upper case, digit, '_' and characters outside the class.
ClusterNames ==
  { <<"m","y","-","C","l","u","s","t","e","r","_","1",".","a">> }

\* The address the platform assigns to the pod with numeric id n.
PodIPs ==
  << "10.0.0.1", "10.0.0.2", "10.0.0.3", "10.0.0.4",
     "10.0.0.5", "10.0.0.6", "10.0.0.7", "10.0.0.8" >>

NoIP == ""

\* The pipeline steps in the order Reconcile calls them.
PipelineOrder ==
  << "setDefaultValues", "updateConfigMap", "addPods",
     "generateInitialClusterFile", "updateDatabaseConfiguration" >>

VARIABLES
  clusterName,  \* cluster.Name, fixed for the life of the object
  store,        \* the FoundationDBCluster spec as persisted by the platform
  cluster,      \* the in-memory copy a Reconcile invocation works on
  pods,         \* the platform's pod list, in list order
  configMap,    \* the shared config object as persisted by the platform
  db,           \* what the admin client has configured in the database
  pc,           \* position of the running Reconcile invocation
  caller,       \* who called updateConfigMap: "Reconcile" or the bootstrap
  tasks,        \* the goroutines spawned by the running step
  clientChan,   \* buffered channel of clients (their pod IPs), FIFO
  connStr,      \* local connectionString under construction
  loopIdx,      \* loop counter of the running step's receive loop
  stepLog,      \* top-level steps begun by the current invocation
  completed,    \* top-level steps that returned nil in this invocation
  lastErr,      \* what the last finished invocation returned
  faulty,       \* whether platform, sidecar and admin calls may fail
  \* ---- the state ReplaceMisconfiguredPods works on
  rspec,        \* cluster.Spec: instance ID prefix, UpdatePodsByReplacement,
                \* and the content of the pod and volume claim templates
  instances,    \* the instances GetInstances lists, in list order
  pvcs,         \* the volume claims the platform lists, in list order
  pending,      \* cluster.Status.PendingRemovals as persisted
  pass,         \* what the last ReplaceMisconfiguredPods pass did and returned
  sync,         \* what the last UpdateConfigMap.Reconcile pass did and returned
  \* ---- the platform shared by several clusters, and the resource builders
  mc,           \* the clusters, pods and config maps of a shared platform
  bld           \* the input and the result of the last resource builder call

pipeVars == << clusterName, store, cluster, pods, configMap, db, pc, caller,
               tasks, clientChan, connStr, loopIdx, stepLog, completed, lastErr >>

rmpVars == << rspec, instances, pvcs, pending, pass, sync >>

auxVars == << mc, bld >>

vars == << pipeVars, faulty, rmpVars, auxVars >>

\* The worlds that do not use the shared platform or the builders keep these.
NoPlatform == << >>

NoBuild == << >>

\* ---------------------------------------------------------- pure functions
\* Mutant: addPods starts at NextInstanceID even when it is below 1.
Max_First(a, b) == a

Max(a, b) == IF a > b THEN a ELSE b

Range(s) == { s[i] : i \in 1..Len(s) }

\* Mutant: the name is copied without replacing anything.
SanitizeName_Identity(name) == name

\* connectionStringNameRegex.ReplaceAllString(name, "_")
SanitizeName(name) ==
  [ i \in 1..Len(name) |-> IF name[i] \in AllowedChars THEN name[i] ELSE "_" ]

\* fmt.Sprintf("%s:init", clusterName)
ConnectionStringPrefix(name) == SanitizeName(name) \o << ":init" >>

\* One iteration of the receive loop: "@" or "," and then ip + ":4500".
AppendCoordinator(cs, i, ip) ==
  cs \o << (IF i = 0 THEN "@" ELSE ","), ip, PortSuffix >>

\* cluster.DesiredProcessCount(processClass), for the one class "storage".
DesiredProcessCount(c) == c.processCount

\* GetMonitorConf: the template depends on the class and the cluster name.
GetMonitorConf(name, processClass) ==
  << "class = ", processClass, "loggroup = " >> \o name

\* Mutant: the cluster-file key is left out of the config map.
GetConfigMap_NoClusterFile(name, c) ==
  [ clusterFile |-> << >>,
    monitorConf |-> IF c.connectionString = << >>
                      THEN << >>
                      ELSE GetMonitorConf(name, "storage"),
    sidecarConf |-> "fdbmonitor.conf" ]

\* GetConfigMap: the data of the desired shared config object.
GetConfigMap(name, c) ==
  [ clusterFile |-> c.connectionString,
    monitorConf |-> IF c.connectionString = << >>
                      THEN << >>
                      ELSE GetMonitorConf(name, "storage"),
    sidecarConf |-> "fdbmonitor.conf" ]

\* GetPod: a new pod has its numeric id and no address yet.
GetPod(id) == [ id |-> id, ip |-> NoIP ]

\* The outcomes a call to a collaborator may have (TRUE: it succeeds).
Outcomes == IF faulty THEN BOOLEAN ELSE { TRUE }

\* ------------------------------------------------------- Reconcile control
\* Mutant: Reconcile goes on to the next step whatever the step returned.
AfterStep_IgnoreErr(step, err) ==
  IF step = "setDefaultValues" THEN "updateConfigMap"
  ELSE IF step = "updateConfigMap" THEN "addPods"
  ELSE IF step = "addPods" THEN "generateInitialClusterFile"
  ELSE IF step = "generateInitialClusterFile" THEN "updateDatabaseConfiguration"
  ELSE "idle"

\* Mutant: addPods is called before updateConfigMap.
AfterStep_Swapped(step, err) ==
  IF err # "nil" THEN "idle"
  ELSE IF step = "setDefaultValues" THEN "addPods"
  ELSE IF step = "addPods" THEN "updateConfigMap"
  ELSE IF step = "updateConfigMap" THEN "generateInitialClusterFile"
  ELSE IF step = "generateInitialClusterFile" THEN "updateDatabaseConfiguration"
  ELSE "idle"

\* Mutant: Reconcile goes from addPods straight to the database.
AfterStep_SkipBootstrap(step, err) ==
  IF err # "nil" THEN "idle"
  ELSE IF step = "setDefaultValues" THEN "updateConfigMap"
  ELSE IF step = "updateConfigMap" THEN "addPods"
  ELSE IF step = "addPods" THEN "updateDatabaseConfiguration"
  ELSE "idle"

\* Reconcile's "if err != nil { return }" after every step.
AfterStep(step, err) ==
  IF err # "nil" THEN "idle"
  ELSE IF step = "setDefaultValues" THEN "updateConfigMap"
  ELSE IF step = "updateConfigMap" THEN "addPods"
  ELSE IF step = "addPods" THEN "generateInitialClusterFile"
  ELSE IF step = "generateInitialClusterFile" THEN "updateDatabaseConfiguration"
  ELSE "idle"

\* A step returns err ("nil" on success) to Reconcile, which goes on or returns.
Finish(step, err) ==
  LET nxt == AfterStep(step, err) IN
  /\ pc' = nxt
  /\ completed' = IF err = "nil" THEN Append(completed, step) ELSE completed
  /\ stepLog' = IF nxt = "idle" THEN stepLog ELSE Append(stepLog, nxt)
  /\ lastErr' = IF err # "nil" THEN err
                ELSE IF nxt = "idle" THEN "nil" ELSE lastErr
  /\ caller' = "Reconcile"
  /\ tasks' = << >>
  /\ clientChan' = << >>
  /\ connStr' = << >>
  /\ loopIdx' = 0

\* Reconcile, lines 110-125: fetch the cluster object and start the pipeline.
Trigger ==
  /\ pc = "idle"
  /\ \E getOk \in Outcomes :
       IF getOk
         THEN /\ cluster' = store
              /\ pc' = "setDefaultValues"
              /\ stepLog' = << "setDefaultValues" >>
              /\ lastErr' = "pending"
         ELSE /\ cluster' = cluster
              /\ pc' = "idle"
              /\ stepLog' = << >>
              /\ lastErr' = "FetchError"
  /\ completed' = << >>
  /\ UNCHANGED << clusterName, store, pods, configMap, db, caller, tasks,
                  clientChan, connStr, loopIdx, faulty >>
  /\ UNCHANGED << rmpVars, auxVars >>

\* Mutant: setDefaultValues writes the cluster object on every pass.
SpecChanged_Always(before, after) == TRUE

\* The flag "changed" of setDefaultValues (lines 154-163): set when a default
\* was filled in.
SpecChanged(before, after) == after # before

\* setDefaultValues
SetDefaultValues ==
  /\ pc = "setDefaultValues"
  /\ LET c1 == [ cluster EXCEPT
                   !.replicationMode = IF @ = "" THEN "double" ELSE @,
                   !.storageEngine = IF @ = "" THEN "ssd" ELSE @ ]
         changed == SpecChanged(cluster, c1)
     IN  /\ cluster' = c1
         /\ IF ~changed
              THEN /\ store' = store
                   /\ Finish("setDefaultValues", "nil")
              ELSE \E updOk \in Outcomes, getOk \in Outcomes :
                     IF ~updOk
                       THEN /\ store' = store
                            /\ Finish("setDefaultValues", "UpdateError")
                       ELSE /\ store' = c1
                            /\ Finish("setDefaultValues",
                                      IF getOk THEN "nil" ELSE "GetError")
  /\ UNCHANGED << clusterName, pods, configMap, db, faulty >>
  /\ UNCHANGED << rmpVars, auxVars >>

\* addPods
AddPods ==
  /\ pc = "addPods"
  /\ \E listOk \in Outcomes :
       IF ~listOk
         THEN /\ UNCHANGED << pods, cluster, store >>
              /\ Finish("addPods", "ListError")
         ELSE
           LET newCount == DesiredProcessCount(cluster) - Len(pods)
               id0 == Max(cluster.nextInstanceID, 1)
               taken(n) == \E i \in 1..Len(pods) : pods[i].id = n
           IN
           IF newCount <= 0
             THEN /\ UNCHANGED << pods, cluster, store >>
                  /\ Finish("addPods", "nil")
             ELSE
               \E k \in 0..newCount :
                 \* the first k Create calls succeed
                 /\ \A i \in 0..(k-1) : ~taken(id0 + i)
                 /\ pods' = pods \o [ i \in 1..k |-> GetPod(id0 + i - 1) ]
                 /\ IF k < newCount
                      THEN \* Create number k+1 fails
                           /\ (FALSE \in Outcomes) \/ taken(id0 + k)
                           /\ UNCHANGED << cluster, store >>
                           /\ Finish("addPods", "CreateError")
                      ELSE /\ cluster' =
                                [ cluster EXCEPT !.nextInstanceID = id0 + newCount ]
                           /\ \E updOk \in Outcomes :
                                IF updOk
                                  THEN /\ store' = cluster'
                                       /\ Finish("addPods", "nil")
                                  ELSE /\ store' = store
                                       /\ Finish("addPods", "UpdateError")
  /\ UNCHANGED << clusterName, configMap, db, faulty >>
  /\ UNCHANGED << rmpVars, auxVars >>

\* The platform assigns an address to a pod that has none.
AssignIP ==
  /\ \E i \in 1..Len(pods) :
       /\ pods[i].ip = NoIP
       /\ pods' = [ pods EXCEPT ![i].ip = PodIPs[pods[i].id] ]
  /\ UNCHANGED << clusterName, store, cluster, configMap, db, pc, caller,
                  tasks, clientChan, connStr, loopIdx, stepLog, completed,
                  lastErr, faulty >>
  /\ UNCHANGED << rmpVars, auxVars >>

\* --------------------------------------------------------------- goroutines
\* A goroutine of the running step, working on its own copy of a listed pod.
NewTask(pod) ==
  [ id |-> pod.id, ip |-> pod.ip, st |-> "client", sends |-> << >>,
    more |-> FALSE ]

\* A goroutine that has its result: blocked in the send of a value on an
\* unbuffered channel, and finished when it has nothing to send; more tells
\* that it goes on to another send once this one is received.
Sending(id, sends, more) ==
  [ id |-> id, ip |-> NoIP, st |-> IF sends = << >> THEN "done" ELSE "send",
    sends |-> sends, more |-> more ]

\* r.Get of a pod by name: the address the platform records for it now.
PodIndex(id) == CHOOSE i \in 1..Len(pods) : pods[i].id = id

\* Mutant: fdbPodClientErrorNoIP is reported like any other provider error.
GetPodClient_NoRetry(task) ==
  LET client(ip) == { [ err |-> "nil", ip |-> ip ] }
      failure(e) == IF FALSE \in Outcomes THEN { [ err |-> e, ip |-> NoIP ] } ELSE { }
  IN  IF task.ip # NoIP
        THEN client(task.ip) \cup failure("ClientError")
        ELSE { [ err |-> "NoIPError", ip |-> NoIP ] }

\* getPodClient: what a call may deliver for a task, given what the platform
\* holds now. podClientProvider is called with the listed pod; while it reports
\* fdbPodClientErrorNoIP the pod is fetched again and the provider called
\* again. Delivers a client (err = "nil", with the pod's address) or an error.
GetPodClient(task) ==
  LET now == pods[PodIndex(task.id)].ip
      client(ip) == { [ err |-> "nil", ip |-> ip ] }
      failure(e) == IF FALSE \in Outcomes THEN { [ err |-> e, ip |-> NoIP ] } ELSE { }
  IN  IF task.ip # NoIP
        THEN client(task.ip) \cup failure("ClientError")
        ELSE failure("GetError") \cup
             (IF now # NoIP THEN client(now) \cup failure("ClientError") ELSE { })

\* The goroutine generateInitialClusterFile starts for one pod (line 322):
\* getPodClient with the step's clientChan (buffered, never full) and errChan.
DiscoverAddress ==
  /\ pc = "gicfLoop"
  /\ \E t \in 1..Len(tasks) :
       /\ tasks[t].st = "client"
       /\ \E r \in GetPodClient(tasks[t]) :
            IF r.err = "nil"
              THEN /\ tasks' = [ tasks EXCEPT ![t] = Sending(tasks[t].id, << >>, FALSE) ]
                   /\ clientChan' = Append(clientChan, r.ip)
              ELSE /\ tasks' =
                        [ tasks EXCEPT ![t] = Sending(tasks[t].id, << r.err >>, FALSE) ]
                   /\ clientChan' = clientChan
  /\ UNCHANGED << clusterName, store, cluster, pods, configMap, db, pc, caller,
                  connStr, loopIdx, stepLog, completed, lastErr, faulty >>
  /\ UNCHANGED << rmpVars, auxVars >>

\* updatePodDynamicConf up to its first send: on an error from getPodClient it
\* sends that error and returns; with a client it runs the two
\* UpdateDynamicFiles calls and reads their results: at the first error it
\* sends that error, and goes on with the loop and the final nil once the
\* error is received; without an error it sends nil.
UpdatePodDynamicConf ==
  /\ pc = "ucmJoin"
  /\ \E t \in 1..Len(tasks) :
       /\ tasks[t].st = "client"
       /\ \E r \in GetPodClient(tasks[t]), monOk \in Outcomes, copyOk \in Outcomes :
            tasks' = [ tasks EXCEPT ![t] =
                 IF r.err # "nil"
                   THEN Sending(tasks[t].id, << r.err >>, FALSE)
                 ELSE IF monOk /\ copyOk
                   THEN Sending(tasks[t].id, << "nil" >>, FALSE)
                 ELSE Sending(tasks[t].id, << "FileError" >>, TRUE) ]
  /\ UNCHANGED << clusterName, store, cluster, pods, configMap, db, pc, caller,
                  clientChan, connStr, loopIdx, stepLog, completed, lastErr,
                  faulty >>
  /\ UNCHANGED << rmpVars, auxVars >>

\* ----------------------------------------------------------- updateConfigMap
\* updateConfigMap returns to Reconcile or to generateInitialClusterFile.
UCMReturn(err) ==
  Finish(IF caller = "Reconcile" THEN "updateConfigMap"
                                 ELSE "generateInitialClusterFile", err)

\* Mutant: the stored config map is updated on every pass.
ConfigMapDiffers_Always(existing, desired) == TRUE

\* The condition of the update (line 191): the data of the stored config map
\* differs from the desired data. The labels follow from the cluster's name
\* alone and are the same in both.
ConfigMapDiffers(existing, desired) == existing.data # desired

\* updateConfigMap, lines 176-211: create or update the config map, list the
\* pods and start one updatePodDynamicConf goroutine per pod.
UpdateConfigMap ==
  /\ pc = "updateConfigMap"
  /\ LET desired == GetConfigMap(clusterName, cluster) IN
     \E getOk \in Outcomes, writeOk \in Outcomes, listOk \in Outcomes :
       IF ~getOk
         THEN /\ configMap' = configMap
              /\ UCMReturn("GetError")
       ELSE IF ~configMap.exists
         THEN /\ configMap' = IF writeOk THEN [ exists |-> TRUE, data |-> desired ]
                                         ELSE configMap
              /\ UCMReturn(IF writeOk THEN "nil" ELSE "CreateError")
       ELSE IF ConfigMapDiffers(configMap, desired) /\ ~writeOk
         THEN /\ configMap' = configMap
              /\ UCMReturn("UpdateError")
       ELSE /\ configMap' = [ exists |-> TRUE, data |-> desired ]
            /\ IF ~listOk
                 THEN UCMReturn("ListError")
                 ELSE /\ tasks' = [ i \in 1..Len(pods) |-> NewTask(pods[i]) ]
                      /\ pc' = "ucmJoin"
                      /\ loopIdx' = 1
                      /\ UNCHANGED << caller, clientChan, connStr, stepLog,
                                      completed, lastErr >>
  /\ UNCHANGED << clusterName, store, cluster, pods, db, faulty >>
  /\ UNCHANGED << rmpVars, auxVars >>

\* updateConfigMap, lines 213-218: receive from the pods' signal channels in
\* list order; the first error received is returned.
UpdateConfigMapJoin ==
  /\ pc = "ucmJoin"
  /\ IF loopIdx > Len(tasks)
       THEN UCMReturn("nil")
       ELSE /\ tasks[loopIdx].st = "send"
            /\ LET v == Head(tasks[loopIdx].sends)
                   rest == Tail(tasks[loopIdx].sends)
               IN IF v # "nil"
                    THEN UCMReturn(v)
                    ELSE /\ tasks' = [ tasks EXCEPT
                              ![loopIdx].sends = rest,
                              ![loopIdx].st = IF rest = << >> THEN "done" ELSE "send" ]
                         /\ loopIdx' = loopIdx + 1
                         /\ UNCHANGED << pc, caller, clientChan, connStr, stepLog,
                                         completed, lastErr >>
  /\ UNCHANGED << clusterName, store, cluster, pods, configMap, db, faulty >>
  /\ UNCHANGED << rmpVars, auxVars >>

\* ------------------------------------------------ generateInitialClusterFile
\* Mutant: the bootstrap runs on every pass.
NeedsInitialClusterFile_Always(c) == TRUE

\* Mutant: the bootstrap never runs.
NeedsInitialClusterFile_Never(c) == FALSE

\* The guard of generateInitialClusterFile, line 306.
NeedsInitialClusterFile(c) == c.connectionString = << >>

\* generateInitialClusterFile, lines 306-325: list the storage pods, check
\* there are enough and start one getPodClient goroutine for each of the
\* first count pods.
GenerateInitialClusterFile ==
  /\ pc = "generateInitialClusterFile"
  /\ IF ~NeedsInitialClusterFile(cluster)
       THEN Finish("generateInitialClusterFile", "nil")
       ELSE \E listOk \in Outcomes :
              IF ~listOk
                THEN Finish("generateInitialClusterFile", "ListError")
              ELSE IF Len(pods) < DesiredCoordinatorCount
                THEN Finish("generateInitialClusterFile", "InsufficientPods")
              ELSE /\ tasks' = [ i \in 1..DesiredCoordinatorCount |-> NewTask(pods[i]) ]
                   /\ clientChan' = << >>
                   /\ connStr' = ConnectionStringPrefix(clusterName)
                   /\ loopIdx' = 0
                   /\ pc' = "gicfLoop"
                   /\ UNCHANGED << caller, stepLog, completed, lastErr >>
  /\ UNCHANGED << clusterName, store, cluster, pods, configMap, db, faulty >>
  /\ UNCHANGED << rmpVars, auxVars >>

\* Mutant: the receive loop stops one client early.
MoreCoordinators_OneShort(i, count) == i < count - 1

\* The condition of the receive loop, "i < count" (line 326).
MoreCoordinators(i, count) == i < count

\* generateInitialClusterFile, lines 326-338: one iteration of the select.
ReceiveCoordinator ==
  /\ pc = "gicfLoop"
  /\ MoreCoordinators(loopIdx, DesiredCoordinatorCount)
  /\ \/ /\ clientChan # << >>
        /\ connStr' = AppendCoordinator(connStr, loopIdx, Head(clientChan))
        /\ clientChan' = Tail(clientChan)
        /\ loopIdx' = loopIdx + 1
        /\ UNCHANGED << pc, caller, tasks, stepLog, completed, lastErr >>
     \/ \E t \in 1..Len(tasks) :
          /\ tasks[t].st = "send"
          /\ Finish("generateInitialClusterFile", Head(tasks[t].sends))
  /\ UNCHANGED << clusterName, store, cluster, pods, configMap, db, faulty >>
  /\ UNCHANGED << rmpVars, auxVars >>

\* generateInitialClusterFile, lines 339-346: store the connection string in
\* the spec, update the cluster object and call updateConfigMap.
PersistConnectionString ==
  /\ pc = "gicfLoop"
  /\ ~MoreCoordinators(loopIdx, DesiredCoordinatorCount)
  /\ cluster' = [ cluster EXCEPT !.connectionString = connStr ]
  /\ \E updOk \in Outcomes :
       IF updOk
         THEN /\ store' = cluster'
              /\ pc' = "updateConfigMap"
              /\ caller' = "generateInitialClusterFile"
              /\ tasks' = << >>
              /\ clientChan' = << >>
              /\ connStr' = << >>
              /\ loopIdx' = 0
              /\ UNCHANGED << stepLog, completed, lastErr >>
         ELSE /\ store' = store
              /\ Finish("generateInitialClusterFile", "UpdateError")
  /\ UNCHANGED << clusterName, pods, configMap, db, faulty >>
  /\ UNCHANGED << rmpVars, auxVars >>

\* ----------------------------------------------- updateDatabaseConfiguration
\* Mutant: the error of ConfigureDatabase is dropped.
ConfigureError_AdminOnly(adminOk, confOk) ==
  IF ~adminOk THEN "AdminError" ELSE "nil"

\* Lines 355-365: the error of adminClientProvider or of ConfigureDatabase,
\* which is called only with an admin client.
ConfigureError(adminOk, confOk) ==
  IF ~adminOk THEN "AdminError"
  ELSE IF ~confOk THEN "ConfigureError"
  ELSE "nil"

\* The database before any configuration.
NotConfigured ==
  [ configured |-> FALSE, replicationMode |-> "", storageEngine |-> "",
    initial |-> FALSE ]

\* Mutant: the database is configured with the default mode and engine.
DatabaseConfiguration_Defaults(c) ==
  [ replicationMode |-> "double", storageEngine |-> "ssd" ]

\* The argument of ConfigureDatabase, lines 359-362.
DatabaseConfiguration(c) ==
  [ replicationMode |-> c.replicationMode, storageEngine |-> c.storageEngine ]

\* adminClient.ConfigureDatabase(configuration, initial), when it succeeds:
\* the database has the configuration and knows whether it was created new.
ConfigureDatabase(configuration, initial) ==
  [ configured |-> TRUE, replicationMode |-> configuration.replicationMode,
    storageEngine |-> configuration.storageEngine, initial |-> initial ]

UpdateDatabaseConfiguration ==
  /\ pc = "updateDatabaseConfiguration"
  /\ IF cluster.configured
       THEN /\ UNCHANGED << cluster, store, db >>
            /\ Finish("updateDatabaseConfiguration", "nil")
       ELSE \E adminOk \in Outcomes, confOk \in Outcomes, updOk \in Outcomes :
              /\ db' = IF adminOk /\ confOk
                         THEN ConfigureDatabase(DatabaseConfiguration(cluster),
                                                TRUE)
                         ELSE db
              /\ IF ConfigureError(adminOk, confOk) # "nil"
                   THEN /\ UNCHANGED << cluster, store >>
                        /\ Finish("updateDatabaseConfiguration",
                                  ConfigureError(adminOk, confOk))
                   ELSE /\ cluster' = [ cluster EXCEPT !.configured = TRUE ]
                        /\ store' = IF updOk THEN cluster' ELSE store
                        /\ Finish("updateDatabaseConfiguration",
                                  IF updOk THEN "nil" ELSE "UpdateError")
  /\ UNCHANGED << clusterName, pods, configMap, faulty >>
  /\ UNCHANGED << rmpVars, auxVars >>

\* -------------------------------------------------- ReplaceMisconfiguredPods
\* An instance identifier is the sequence of its "-"-separated components,
\* "{prefix-}{processClass}-{n}"; a trailing component that is not a positive
\* integer is written 0. Components is the split of a string at its "-".
Components(str) ==
  CASE str = "log-router" -> << "log", "router" >>
    [] str = "dc-1"       -> << "dc", "1" >>
    [] OTHER              -> << str >>

\* Mutant: the prefix is written after the process class.
InstanceID_PrefixLast(prefix, processClass, n) ==
  IF prefix # ""
    THEN Components(processClass) \o Components(prefix) \o << n >>
    ELSE Components(processClass) \o << n >>

InstanceID(prefix, processClass, n) ==
  IF prefix # ""
    THEN Components(prefix) \o Components(processClass) \o << n >>
    ELSE Components(processClass) \o << n >>

\* ParseInstanceID: the process class and the number of an identifier, or the
\* error for a trailing component that is not a positive integer.
ParseInstanceID(id) ==
  IF Len(id) >= 2 /\ id[Len(id)] > 0
    THEN [ err |-> "nil", processClass |-> id[Len(id) - 1], num |-> id[Len(id)] ]
    ELSE [ err |-> "MalformedIdentifier", processClass |-> "", num |-> 0 ]

\* getInstanceID: the identifier the current spec gives (processClass, idNum).
GetInstanceID(spec, processClass, idNum) ==
  InstanceID(spec.prefix, processClass, idNum)

\* GetPodSpecHash: a digest of the pod spec built for (processClass, idNum);
\* the spec carries the instance's identifier and the pod template.
GetPodSpecHash(spec, processClass, idNum) ==
  << "pod", GetInstanceID(spec, processClass, idNum), spec.template >>

\* GetJSONHash(GetPvc(...).Spec): a digest of the desired volume claim.
GetPvcHash(spec, processClass, idNum) == << "pvc", spec.template >>

\* getPendingRemovalState: the snapshot kept for the drain of an instance.
GetPendingRemovalState(inst) == [ podName |-> inst.id, address |-> inst.addr ]

\* removals[instanceID] = removalState
PutRemoval(removals, id, state) ==
  [ x \in DOMAIN removals \cup { id } |-> IF x = id THEN state ELSE removals[x] ]

\* Mutant: an identifier already pending removal is evaluated again.
PendingRemoval_Never(removals, id) == FALSE

\* "_, pendingRemoval := removals[instanceID]" (lines 2495 and 2534)
PendingRemoval(removals, id) == id \in DOMAIN removals

\* Mutant: the volume-claim drift path is enabled.
PvcNeedsRemoval_Enabled(spec, pvc, idNum) ==
  pvc.lastSpec # GetPvcHash(spec, pvc.processClass, idNum)

\* The condition of line 2507, with its "&& false".
PvcNeedsRemoval(spec, pvc, idNum) ==
  pvc.lastSpec # GetPvcHash(spec, pvc.processClass, idNum) /\ FALSE

\* Mutant: the spec hash is compared whatever UpdatePodsByReplacement says.
NeedsRemoval_AlwaysHash(spec, inst, idNum) ==
  \/ inst.id # GetInstanceID(spec, inst.processClass, idNum)
  \/ inst.lastSpec # GetPodSpecHash(spec, inst.processClass, idNum)

\* Mutant: the desired hash is computed without the instance ID prefix.
NeedsRemoval_HashIgnoresPrefix(spec, inst, idNum) ==
  \/ inst.id # GetInstanceID(spec, inst.processClass, idNum)
  \/ /\ spec.byReplacement
     /\ inst.lastSpec # GetPodSpecHash([ spec EXCEPT !.prefix = "" ],
                                       inst.processClass, idNum)

\* needsRemoval, lines 2544-2564.
NeedsRemoval(spec, inst, idNum) ==
  \/ inst.id # GetInstanceID(spec, inst.processClass, idNum)
  \/ /\ spec.byReplacement
     /\ inst.lastSpec # GetPodSpecHash(spec, inst.processClass, idNum)

\* Mutant: the status is written at the end of every pass.
StatusWrites_Always(hasNewRemovals) == 1

\* Lines 2573-2583: the status is written when hasNewRemovals is set.
StatusWrites(hasNewRemovals) == IF hasNewRemovals THEN 1 ELSE 0

\* Mutant: the error of ParseInstanceID is dropped and the pass goes on.
ParseFailed_Ignored(parsed) == FALSE

\* Lines 2500-2502 and 2540-2542: "if err != nil { return false, err }".
ParseFailed(parsed) == parsed.err # "nil"

\* Mutant: a pass starts from an empty removals map.
PassStart_EmptyMap ==
  [ removals |-> << >>, hasNew |-> FALSE, err |-> "nil",
    evaluated |-> { }, assigned |-> << >>,
    pvcAssigned |-> << >>, pvcLookups |-> 0 ]

\* The local state of a pass: the removals map, hasNewRemovals, the error it
\* stopped with, and a record of what it evaluated, assigned and looked up.
PassStart ==
  [ removals |-> pending, hasNew |-> FALSE, err |-> "nil",
    evaluated |-> { }, assigned |-> << >>,
    pvcAssigned |-> << >>, pvcLookups |-> 0 ]

\* The volume-claim loop, lines 2481-2521, from claim number i on; the hash of
\* the desired claim fails for claim number hashFailAt (0: for none), and that
\* error is returned after the drift branch (lines 2518-2520).
RECURSIVE PvcLoop(_, _, _)
PvcLoop(i, st, hashFailAt) ==
  IF i > Len(pvcs) \/ st.err # "nil" THEN st
  ELSE
    LET pvc == pvcs[i]
        parsed == ParseInstanceID(pvc.id)
        found == { k \in 1..Len(instances) : instances[k].id = pvc.id }
        drift ==
          IF ~PvcNeedsRemoval(rspec, pvc, parsed.num) THEN st
          ELSE IF found = { } THEN [ st EXCEPT !.pvcLookups = @ + 1 ]
          ELSE [ st EXCEPT
                   !.pvcLookups = @ + 1,
                   !.removals = PutRemoval(@, pvc.id,
                      GetPendingRemovalState(
                        instances[CHOOSE k \in found : \A j \in found : k <= j])),
                   !.hasNew = TRUE,
                   !.pvcAssigned = Append(@, pvc.id) ]
    IN
    IF ~pvc.owned THEN PvcLoop(i + 1, st, hashFailAt)
    ELSE IF PendingRemoval(st.removals, pvc.id)
      THEN PvcLoop(i + 1, st, hashFailAt)
    ELSE IF ParseFailed(parsed)
      THEN [ st EXCEPT !.err = parsed.err ]
    ELSE IF hashFailAt = i
      THEN [ drift EXCEPT !.err = "HashError" ]
    ELSE PvcLoop(i + 1, drift, hashFailAt)

\* The instance loop, lines 2528-2571, from instance number i on;
\* GetPodSpecHash fails for instance number hashFailAt (0: for none).
RECURSIVE InstanceLoop(_, _, _)
InstanceLoop(i, st, hashFailAt) ==
  IF i > Len(instances) \/ st.err # "nil" THEN st
  ELSE
    LET inst == instances[i]
        parsed == ParseInstanceID(inst.id)
    IN
    IF ~inst.pod THEN InstanceLoop(i + 1, st, hashFailAt)
    ELSE IF PendingRemoval(st.removals, inst.id)
      THEN InstanceLoop(i + 1, st, hashFailAt)
    ELSE IF ParseFailed(parsed)
      THEN [ st EXCEPT !.err = parsed.err, !.evaluated = @ \cup { inst.id } ]
    ELSE IF rspec.byReplacement /\ hashFailAt = i
      THEN [ st EXCEPT !.err = "HashError", !.evaluated = @ \cup { inst.id } ]
    ELSE IF NeedsRemoval(rspec, inst, parsed.num)
      THEN InstanceLoop(i + 1,
             [ st EXCEPT
                 !.evaluated = @ \cup { inst.id },
                 !.removals = PutRemoval(@, inst.id, GetPendingRemovalState(inst)),
                 !.hasNew = TRUE,
                 !.assigned = Append(@, inst.id) ],
             hashFailAt)
    ELSE InstanceLoop(i + 1, [ st EXCEPT !.evaluated = @ \cup { inst.id } ],
                      hashFailAt)

\* What a pass leaves behind: its return values and the record of its work.
PassResult(st, done, err, writes) ==
  [ done |-> done, err |-> err, writes |-> writes,
    evaluated |-> st.evaluated, assigned |-> st.assigned,
    pvcAssigned |-> st.pvcAssigned, pvcLookups |-> st.pvcLookups ]

\* The calls of a pass that may fail; a pass stops at the first failure, so one
\* failing call is chosen for a pass: the listing of the volume claims, the
\* hash of the desired claim for claim number i, the listing of the instances,
\* GetPodSpecHash for instance number i, the status update, or none.
FaultPoints ==
  IF FALSE \in Outcomes
    THEN { [ call |-> c, at |-> 0 ] :
             c \in { "none", "ListPvcs", "GetInstances", "StatusUpdate" } }
         \cup { [ call |-> "GetJSONHash", at |-> i ] : i \in 1..Len(pvcs) }
         \cup { [ call |-> "GetPodSpecHash", at |-> i ] : i \in 1..Len(instances) }
    ELSE { [ call |-> "none", at |-> 0 ] }

\* ReplaceMisconfiguredPods.Reconcile
ReplaceMisconfiguredPods ==
  /\ \E fault \in FaultPoints :
       LET st1 == PvcLoop(1, PassStart,
                          IF fault.call = "GetJSONHash" THEN fault.at ELSE 0)
           st2 == InstanceLoop(1, st1,
                    IF fault.call = "GetPodSpecHash" THEN fault.at ELSE 0)
           writes == StatusWrites(st2.hasNew)
       IN
       IF fault.call = "ListPvcs"
         THEN /\ pass' = PassResult(PassStart, FALSE, "ListError", 0)
              /\ pending' = pending
       ELSE IF st1.err # "nil"
         THEN /\ pass' = PassResult(st1, FALSE, st1.err, 0)
              /\ pending' = pending
       ELSE IF fault.call = "GetInstances"
         THEN /\ pass' = PassResult(st1, FALSE, "ListError", 0)
              /\ pending' = pending
       ELSE IF st2.err # "nil"
         THEN /\ pass' = PassResult(st2, FALSE, st2.err, 0)
              /\ pending' = pending
       ELSE IF writes > 0 /\ fault.call = "StatusUpdate"
         THEN /\ pass' = PassResult(st2, FALSE, "UpdateError", writes)
              /\ pending' = pending
       ELSE /\ pass' = PassResult(st2, TRUE, "nil", writes)
            /\ pending' = IF writes > 0 THEN st2.removals ELSE pending
  /\ UNCHANGED << rspec, instances, pvcs, sync, faulty, pipeVars, auxVars >>

\* ---- what the user and the platform do between the passes
\* No pass is running or has just returned.
NoPass ==
  [ done |-> FALSE, err |-> "none", writes |-> 0,
    evaluated |-> { }, assigned |-> << >>, pvcAssigned |-> << >>,
    pvcLookups |-> 0 ]

\* The caller has taken the return values of the last pass.
Returned == pass' = NoPass

Prefixes == { "", "dc1" }

\* The contents the user gives the pod and volume claim templates of the spec.
TemplateVersions == { "v1", "v2" }

\* The user changes the instance ID prefix of the spec.
EditPrefix ==
  /\ \E p \in Prefixes \ { rspec.prefix } : rspec' = [ rspec EXCEPT !.prefix = p ]
  /\ Returned
  /\ UNCHANGED << instances, pvcs, pending, sync, faulty, pipeVars, auxVars >>

\* The user sets or clears UpdatePodsByReplacement.
ToggleUpdatePodsByReplacement ==
  /\ rspec' = [ rspec EXCEPT !.byReplacement = ~@ ]
  /\ Returned
  /\ UNCHANGED << instances, pvcs, pending, sync, faulty, pipeVars, auxVars >>

\* The user changes the pod and volume claim templates of the spec.
EditTemplate ==
  /\ \E v \in TemplateVersions \ { rspec.template } :
       rspec' = [ rspec EXCEPT !.template = v ]
  /\ Returned
  /\ UNCHANGED << instances, pvcs, pending, sync, faulty, pipeVars, auxVars >>

\* The platform changes one instance: its pod is deleted, its pod gets
\* another address, or its instance-id label is edited into one whose
\* trailing component is not a positive integer.
ChangeInstance ==
  /\ \E i \in 1..Len(instances) :
       \/ /\ instances[i].pod
          /\ instances' = [ instances EXCEPT ![i].pod = FALSE ]
       \/ /\ instances[i].pod
          /\ instances[i].addr = PodIPs[i]
          /\ instances' = [ instances EXCEPT ![i].addr = PodIPs[i + MaxInstances] ]
       \/ /\ i = Len(instances)
          /\ ParseInstanceID(instances[i].id).err = "nil"
          /\ instances' = [ instances EXCEPT
               ![i].id = InstanceID("", instances[i].processClass, 0) ]
  /\ Returned
  /\ UNCHANGED << rspec, pvcs, pending, sync, faulty, pipeVars, auxVars >>

RmpNext ==
  \/ ReplaceMisconfiguredPods
  \/ EditPrefix
  \/ ToggleUpdatePodsByReplacement
  \/ EditTemplate
  \/ ChangeInstance

\* ------------------------------------------------ UpdateConfigMap.Reconcile
\* An instance without the last-applied-dynamic-conf annotation.
NoHash == << >>

\* GetDynamicConfHash: a digest of the data of a config map.
GetDynamicConfHash(data) == << "conf", data >>

\* Mutant: the dynamic conf is pushed to every instance on every pass.
NeedsSync_Always(inst, configMapHash) == TRUE

\* The condition of line 86: the instance's annotation is not the hash.
NeedsSync(inst, configMapHash) == inst.lastConf # configMapHash

\* Mutant: a push that failed or did not sync is skipped.
PushAborts_Never(synced) == FALSE

\* Lines 88-90: "if !synced { return synced, err }".
PushAborts(synced) == ~synced

\* The local state of the instance loop: the instances with the annotations
\* the platform holds for them, the instances pushed to with success, the
\* instance whose push failed or did not sync (0: none), the instances whose
\* metadata was updated, and what the loop returns.
SyncStart ==
  [ instances |-> instances, pushed |-> << >>, failed |-> 0,
    stamped |-> << >>, done |-> TRUE, err |-> "nil" ]

\* The instance loop, lines 84-98, from instance number i on; fault names
\* the call that fails in this pass and the instance it fails for.
RECURSIVE SyncLoop(_, _, _, _)
SyncLoop(i, st, configMapHash, fault) ==
  IF i > Len(instances) THEN st
  ELSE IF ~NeedsSync(instances[i], configMapHash)
    THEN SyncLoop(i + 1, st, configMapHash, fault)
  ELSE
    LET pushErr == fault = [ call |-> "updatePodDynamicConf", at |-> i ]
        notSynced == fault = [ call |-> "notSynced", at |-> i ]
        synced == ~pushErr /\ ~notSynced
        afterPush == IF synced THEN [ st EXCEPT !.pushed = Append(@, i) ]
                               ELSE [ st EXCEPT !.failed = i ]
    IN
    IF PushAborts(synced)
      THEN [ afterPush EXCEPT !.done = FALSE,
                              !.err = IF pushErr THEN "PushError" ELSE "nil" ]
    ELSE IF fault = [ call |-> "UpdateMetadata", at |-> i ]
      THEN [ afterPush EXCEPT !.done = FALSE, !.err = "MetadataError" ]
    ELSE SyncLoop(i + 1,
           [ afterPush EXCEPT !.instances[i].lastConf = configMapHash,
                              !.stamped = Append(@, i) ],
           configMapHash, fault)

\* The calls of a pass that may fail; a pass stops at the first failure, so
\* one failing call is chosen for a pass.
SyncFaultPoints ==
  IF FALSE \in Outcomes
    THEN { [ call |-> c, at |-> 0 ] :
             c \in { "none", "Get", "Write", "GetDynamicConfHash", "GetInstances" } }
         \cup { [ call |-> c, at |-> i ] :
                  c \in { "updatePodDynamicConf", "notSynced", "UpdateMetadata" },
                  i \in 1..Len(instances) }
    ELSE { [ call |-> "none", at |-> 0 ] }

\* What a pass leaves behind: its return values and the record of its work.
SyncResult(st, created, updated) ==
  [ done |-> st.done, err |-> st.err, created |-> created, updated |-> updated,
    pushed |-> st.pushed, failed |-> st.failed, stamped |-> st.stamped ]

SyncFailed(e) == [ SyncStart EXCEPT !.done = FALSE, !.err = e ]

\* UpdateConfigMap.Reconcile. The labels and annotations of the config map
\* follow from the cluster's name alone and are left out.
UpdateConfigMapReconcile ==
  /\ \E fault \in SyncFaultPoints :
       LET desired == GetConfigMap(clusterName, cluster)
           differs == ConfigMapDiffers(configMap, desired)
           st == SyncLoop(1, SyncStart, GetDynamicConfHash(desired), fault)
       IN
       IF fault.call = "Get"
         THEN /\ sync' = SyncResult(SyncFailed("GetError"), FALSE, FALSE)
              /\ UNCHANGED << configMap, instances >>
       ELSE IF ~configMap.exists
         THEN IF fault.call = "Write"
                THEN /\ sync' = SyncResult(SyncFailed("CreateError"), FALSE, FALSE)
                     /\ UNCHANGED << configMap, instances >>
                ELSE /\ sync' = SyncResult(SyncStart, TRUE, FALSE)
                     /\ configMap' = [ exists |-> TRUE, data |-> desired ]
                     /\ UNCHANGED instances
       ELSE IF differs /\ fault.call = "Write"
         THEN /\ sync' = SyncResult(SyncFailed("UpdateError"), FALSE, FALSE)
              /\ UNCHANGED << configMap, instances >>
       ELSE /\ configMap' = [ exists |-> TRUE, data |-> desired ]
            /\ IF fault.call = "GetDynamicConfHash"
                 THEN /\ sync' = SyncResult(SyncFailed("HashError"), FALSE, differs)
                      /\ UNCHANGED instances
               ELSE IF fault.call = "GetInstances"
                 THEN /\ sync' = SyncResult(SyncFailed("ListError"), FALSE, differs)
                      /\ UNCHANGED instances
               ELSE /\ sync' = SyncResult(st, FALSE, differs)
                    /\ instances' = st.instances
  /\ UNCHANGED << rspec, pvcs, pending, pass, faulty, auxVars >>
  /\ UNCHANGED << clusterName, store, cluster, pods, db, pc, caller, tasks,
                  clientChan, connStr, loopIdx, stepLog, completed, lastErr >>

\* No UpdateConfigMap pass is running or has just returned.
NoSync ==
  [ done |-> FALSE, err |-> "none", created |-> FALSE, updated |-> FALSE,
    pushed |-> << >>, failed |-> 0, stamped |-> << >> ]

\* The coordinators change: the cluster gets another connection string.
ChangeCoordinators ==
  /\ \E first \in { 1, 2 } :
       LET cs == AppendCoordinator(ConnectionStringPrefix(clusterName), 0,
                                   PodIPs[first])
       IN  /\ cs # store.connectionString
           /\ store' = [ store EXCEPT !.connectionString = cs ]
  /\ cluster' = store'
  /\ sync' = NoSync
  /\ UNCHANGED << rspec, instances, pvcs, pending, pass, faulty, auxVars >>
  /\ UNCHANGED << clusterName, pods, configMap, db, pc, caller, tasks,
                  clientChan, connStr, loopIdx, stepLog, completed, lastErr >>

\* An instance's pod is replaced or edited and comes back without the
\* last-applied-dynamic-conf annotation.
LoseAnnotation ==
  /\ \E i \in 1..Len(instances) :
       /\ instances[i].lastConf # NoHash
       /\ instances' = [ instances EXCEPT ![i].lastConf = NoHash ]
  /\ sync' = NoSync
  /\ UNCHANGED << rspec, pvcs, pending, pass, faulty, auxVars >>
  /\ UNCHANGED pipeVars

UcmNext ==
  \/ UpdateConfigMapReconcile
  \/ ChangeCoordinators
  \/ LoseAnnotation

\* ------------------------------------------------------------ specification
NewCluster(n) ==
  [ replicationMode |-> "", storageEngine |-> "", connectionString |-> << >>,
    configured |-> FALSE, nextInstanceID |-> 0, processCount |-> n ]

NoConfigMap ==
  [ exists |-> FALSE, data |-> GetConfigMap(<< >>, NewCluster(0)) ]

InitState ==
  /\ clusterName \in ClusterNames
  /\ \E n \in 2..MaxProcessCount, rm \in { "", "double" }, se \in { "", "memory" } :
       store = [ NewCluster(n) EXCEPT !.replicationMode = rm, !.storageEngine = se ]
  /\ cluster = store
  /\ pods = << >>
  /\ configMap = NoConfigMap
  /\ db = NotConfigured
  /\ pc = "idle"
  /\ caller = "Reconcile"
  /\ tasks = << >>
  /\ clientChan = << >>
  /\ connStr = << >>
  /\ loopIdx = 0
  /\ stepLog = << >>
  /\ completed = << >>
  /\ lastErr = "nil"
  /\ rspec = [ prefix |-> "", byReplacement |-> FALSE, template |-> "v1" ]
  /\ instances = << >>
  /\ pvcs = << >>
  /\ pending = << >>
  /\ pass = [ done |-> FALSE, err |-> "none", writes |-> 0,
              evaluated |-> { }, assigned |-> << >>, pvcAssigned |-> << >>,
              pvcLookups |-> 0 ]
  /\ sync = [ done |-> FALSE, err |-> "none", created |-> FALSE,
              updated |-> FALSE, pushed |-> << >>, failed |-> 0,
              stamped |-> << >> ]

\* Any call to the platform, a sidecar or the admin client may fail.
Init == InitState /\ faulty = TRUE /\ mc = NoPlatform /\ bld = NoBuild

\* A cluster whose instances were created under its spec; nothing is pending.
RmpInit ==
  /\ clusterName \in ClusterNames
  /\ store = NewCluster(MaxInstances)
  /\ cluster = store
  /\ pods = << >>
  /\ configMap = NoConfigMap
  /\ db = NotConfigured
  /\ pc = "idle"
  /\ caller = "Reconcile"
  /\ tasks = << >>
  /\ clientChan = << >>
  /\ connStr = << >>
  /\ loopIdx = 0
  /\ stepLog = << >>
  /\ completed = << >>
  /\ lastErr = "nil"
  /\ faulty = TRUE
  /\ \E p \in Prefixes :
       rspec = [ prefix |-> p, byReplacement |-> FALSE, template |-> "v1" ]
  /\ instances = [ k \in 1..MaxInstances |->
       [ id |-> GetInstanceID(rspec, "storage", k), processClass |-> "storage",
         pod |-> TRUE, lastSpec |-> GetPodSpecHash(rspec, "storage", k),
         addr |-> PodIPs[k], lastConf |-> NoHash ] ]
  /\ \E owned \in BOOLEAN :
       pvcs = [ k \in 1..MaxInstances |->
         [ id |-> GetInstanceID(rspec, "storage", k), processClass |-> "storage",
           owned |-> (owned \/ k > 1),
           lastSpec |-> GetPvcHash(rspec, "storage", k) ] ]
  /\ pending = << >>
  /\ pass = NoPass
  /\ sync = NoSync
  /\ mc = NoPlatform
  /\ bld = NoBuild

RmpSpec == RmpInit /\ [][RmpNext]_vars

\* A cluster with a connection string and its instances; the config map is
\* missing or holds the data of an earlier spec, and the instances carry no
\* annotation or the hash of that earlier data.
UcmInit ==
  /\ clusterName \in ClusterNames
  /\ store = [ NewCluster(MaxInstances) EXCEPT
                 !.connectionString =
                    AppendCoordinator(ConnectionStringPrefix(clusterName), 0,
                                      PodIPs[1]) ]
  /\ cluster = store
  /\ pods = << >>
  /\ \E exists \in BOOLEAN :
       configMap = [ NoConfigMap EXCEPT !.exists = exists ]
  /\ db = NotConfigured
  /\ pc = "idle"
  /\ caller = "Reconcile"
  /\ tasks = << >>
  /\ clientChan = << >>
  /\ connStr = << >>
  /\ loopIdx = 0
  /\ stepLog = << >>
  /\ completed = << >>
  /\ lastErr = "nil"
  /\ faulty = TRUE
  /\ rspec = [ prefix |-> "", byReplacement |-> FALSE, template |-> "v1" ]
  /\ \E stamped \in BOOLEAN :
       instances = [ k \in 1..MaxInstances |->
         [ id |-> GetInstanceID(rspec, "storage", k), processClass |-> "storage",
           pod |-> TRUE, lastSpec |-> GetPodSpecHash(rspec, "storage", k),
           addr |-> PodIPs[k],
           lastConf |-> IF stamped /\ configMap.exists
                          THEN GetDynamicConfHash(configMap.data) ELSE NoHash ] ]
  /\ pvcs = << >>
  /\ pending = << >>
  /\ pass = NoPass
  /\ sync = NoSync
  /\ mc = NoPlatform
  /\ bld = NoBuild

UcmSpec == UcmInit /\ [][UcmNext]_vars

Next ==
  \/ Trigger
  \/ SetDefaultValues
  \/ UpdateConfigMap
  \/ UpdatePodDynamicConf
  \/ UpdateConfigMapJoin
  \/ AddPods
  \/ GenerateInitialClusterFile
  \/ DiscoverAddress
  \/ ReceiveCoordinator
  \/ PersistConnectionString
  \/ UpdateDatabaseConfiguration
  \/ AssignIP

Spec == Init /\ [][Next]_vars

\* Every platform, sidecar and admin call succeeds; the controller keeps
\* being triggered and a runnable goroutine eventually runs.
LiveInit == InitState /\ faulty = FALSE /\ mc = NoPlatform /\ bld = NoBuild

LiveSpec == LiveInit /\ [][Next]_vars /\ WF_vars(Next)

\* The steps of the operator itself: every step but the platform's AssignIP.
OperatorNext ==
  \/ Trigger
  \/ SetDefaultValues
  \/ UpdateConfigMap
  \/ UpdatePodDynamicConf
  \/ UpdateConfigMapJoin
  \/ AddPods
  \/ GenerateInitialClusterFile
  \/ DiscoverAddress
  \/ ReceiveCoordinator
  \/ PersistConnectionString
  \/ UpdateDatabaseConfiguration

\* No call fails and the operator's goroutines are scheduled fairly, while the
\* platform may take any time, or for ever, to assign an address to a pod.
WaitSpec == LiveInit /\ [][Next]_vars /\ WF_vars(OperatorNext)

TypeOK ==
  /\ pc \in { "idle", "setDefaultValues", "updateConfigMap", "ucmJoin", "addPods",
              "generateInitialClusterFile", "gicfLoop", "updateDatabaseConfiguration" }
  /\ Len(pods) <= MaxProcessCount

\* ------------------------------------------------------------------- claims
IsPrefix(s, t) == Len(s) <= Len(t) /\ SubSeq(t, 1, Len(s)) = s

\* The pipeline step the running invocation is in ("none" between invocations).
ActiveStep ==
  IF pc = "idle" THEN "none"
  ELSE IF pc \in { "updateConfigMap", "ucmJoin" }
    THEN (IF caller = "Reconcile" THEN "updateConfigMap"
                                  ELSE "generateInitialClusterFile")
  ELSE IF pc = "gicfLoop" THEN "generateInitialClusterFile"
  ELSE pc

\* The number of "address:4500" entries of a connection string.
CountAddresses(cs) == Cardinality({ i \in 1..Len(cs) : cs[i] = PortSuffix })

\* Nothing the platform holds is taken back by a step.
KeepsEffects ==
  /\ IsPrefix([ i \in 1..Len(pods) |-> pods[i].id ],
              [ i \in 1..Len(pods') |-> pods'[i].id ])
  /\ configMap.exists => configMap'.exists
  /\ store.replicationMode # "" => store'.replicationMode = store.replicationMode
  /\ store.storageEngine # "" => store'.storageEngine = store.storageEngine
  /\ store.connectionString # << >> =>
       store'.connectionString = store.connectionString
  /\ store.configured => store'.configured
  /\ store'.nextInstanceID >= store.nextInstanceID

BootstrapReady ==
  /\ store.connectionString = << >>
  /\ ~store.configured
  /\ Len(pods) >= DesiredCoordinatorCount
  /\ \A i \in 1..Len(pods) : pods[i].ip # NoIP

Converged ==
  /\ store.connectionString # << >>
  /\ store.configured
  /\ configMap.exists
  /\ configMap.data.clusterFile = store.connectionString

\* C1: from a cluster with an empty ConnectionString, configured = false and at
\* least DesiredCoordinatorCount storage pods that all have an address, when no
\* call fails, repeated reconciles eventually reach a state where
\* ConnectionString is non-empty, configured is true and the config map's
\* cluster-file equals ConnectionString.
C1_EventuallyBootstrapped == BootstrapReady ~> Converged

C1_Witness ==
  /\ Converged
  /\ db.configured
  /\ Len(pods) >= DesiredCoordinatorCount

\* C2: when a pipeline step returns an error, Reconcile returns that error at
\* once: no later step begins in that invocation, and what the platform holds
\* (pods created, config map, spec fields written) is kept.
C2_ErrorAbortsPipeline ==
  [][ (pc # "idle" /\ lastErr' \notin { "nil", "pending" }) =>
        /\ pc' = "idle"
        /\ stepLog' = stepLog
        /\ completed' = completed
        /\ ActiveStep = stepLog[Len(stepLog)]
        /\ KeepsEffects ]_vars

C2_Witness ==
  /\ pc = "idle"
  /\ lastErr = "CreateError"
  /\ stepLog = SubSeq(PipelineOrder, 1, 3)
  /\ completed = SubSeq(PipelineOrder, 1, 2)
  /\ Len(pods) > 0
  /\ store.nextInstanceID = 0

\* C3: within one Reconcile invocation the steps begin in the fixed order
\* setDefaultValues, updateConfigMap, addPods, generateInitialClusterFile,
\* updateDatabaseConfiguration; a step begins only when every step before it
\* has returned nil, and exactly one step is active while the invocation runs.
C3_StepsInOrder ==
  /\ IsPrefix(stepLog, PipelineOrder)
  /\ IsPrefix(completed, stepLog)
  /\ pc # "idle" =>
       /\ Len(stepLog) = Len(completed) + 1
       /\ ActiveStep = stepLog[Len(stepLog)]
  /\ tasks # << >> => pc \in { "ucmJoin", "gicfLoop" }

C3_Witness ==
  /\ pc = "updateDatabaseConfiguration"
  /\ completed = SubSeq(PipelineOrder, 1, 4)
  /\ stepLog = PipelineOrder

\* C8: once the persisted ConnectionString is non-empty, no step starts the
\* address discovery of the coordinator bootstrap and no step changes the
\* persisted ConnectionString.
C8_BootstrapOnlyWhileEmpty ==
  [][ store.connectionString # << >> =>
        /\ store'.connectionString = store.connectionString
        /\ pc' # "gicfLoop" ]_vars

C8_Witness ==
  /\ store.connectionString # << >>
  /\ cluster.connectionString # << >>
  /\ pc = "updateDatabaseConfiguration"
  /\ cluster.configured

\* C9: when fewer than DesiredCoordinatorCount storage pods are listed, or an
\* address lookup has failed, generateInitialClusterFile ends with an error and
\* the persisted ConnectionString stays empty; a persisted ConnectionString
\* never holds fewer than DesiredCoordinatorCount addresses.
C9_NoPartialConnectionString ==
  [][ /\ store'.connectionString # << >> =>
           CountAddresses(store'.connectionString) >= DesiredCoordinatorCount
      /\ ( /\ pc = "generateInitialClusterFile"
           /\ pc' # pc
           /\ cluster.connectionString = << >>
           /\ Len(pods) < DesiredCoordinatorCount ) =>
             /\ pc' = "idle"
             /\ lastErr' \notin { "nil", "pending" }
             /\ store'.connectionString = << >>
      /\ ( /\ pc = "gicfLoop"
           /\ \E t \in 1..Len(tasks) : tasks[t].st = "send" ) =>
             /\ store'.connectionString = << >>
             /\ pc' \in { "gicfLoop", "idle" }
             /\ pc' = "idle" => lastErr' \notin { "nil", "pending" } ]_vars

C9_Witness ==
  /\ pc = "idle"
  /\ stepLog = SubSeq(PipelineOrder, 1, 4)
  /\ lastErr \in { "InsufficientPods", "ClientError" }
  /\ store.connectionString = << >>

\* C10: a persisted connection string is the cluster name with every character
\* outside [A-Za-z0-9_] replaced by '_', then ":init", then exactly
\* DesiredCoordinatorCount entries "address:4500", the first after "@" and the
\* others after ",", whose addresses are those of the first
\* DesiredCoordinatorCount listed pods, each once.
C10_ConnectionStringShape ==
  store.connectionString # << >> =>
    LET cs == store.connectionString
        n == Len(clusterName)
        N == DesiredCoordinatorCount
        addrs == { cs[n + 3 + 3 * k] : k \in 0..(N - 1) }
    IN  /\ Len(cs) = n + 1 + 3 * N
        /\ \A i \in 1..n :
             cs[i] = IF clusterName[i] \in AllowedChars THEN clusterName[i] ELSE "_"
        /\ cs[n + 1] = ":init"
        /\ \A k \in 0..(N - 1) :
             /\ cs[n + 2 + 3 * k] = IF k = 0 THEN "@" ELSE ","
             /\ cs[n + 4 + 3 * k] = ":4500"
        /\ Len(pods) >= N
        /\ addrs = { pods[i].ip : i \in 1..N }
        /\ NoIP \notin addrs
        /\ Cardinality(addrs) = N

C10_Witness ==
  /\ store.connectionString # << >>
  /\ Len(pods) > DesiredCoordinatorCount
  /\ \E i \in 1..Len(clusterName) : clusterName[i] \notin AllowedChars

\* A step of ReplaceMisconfiguredPods.Reconcile (every other step clears pass).
PassStep == pass'.err # "none"

\* The identifier the current spec gives an instance's class and number.
DesiredID(inst) ==
  InstanceID(rspec.prefix, inst.processClass, inst.id[Len(inst.id)])

\* The instances a pass has to mark: those with a pod that are not pending
\* removal and whose identifier is not the desired one or, with
\* UpdatePodsByReplacement, whose last-applied-spec is not the desired hash.
ExpectedRemovals ==
  { instances[i].id : i \in
      { k \in 1..Len(instances) :
          /\ instances[k].pod
          /\ instances[k].id \notin DOMAIN pending
          /\ \/ instances[k].id # DesiredID(instances[k])
             \/ /\ rspec.byReplacement
                /\ instances[k].lastSpec #
                     << "pod", DesiredID(instances[k]), rspec.template >> } }

\* C4: an identifier that is in PendingRemovals is skipped by every later pass:
\* the pass does not evaluate it, does not assign it again and leaves its
\* removal state as it is; no pass assigns an identifier twice; a pass that
\* returns without error leaves every instance that has a pod and an
\* identifier other than its desired one in PendingRemovals.
C4_PendingRemovalOnce ==
  [][ PassStep =>
        /\ \A id \in DOMAIN pending :
             /\ id \in DOMAIN pending'
             /\ pending'[id] = pending[id]
             /\ id \notin pass'.evaluated
             /\ id \notin Range(pass'.assigned)
        /\ Cardinality(Range(pass'.assigned)) = Len(pass'.assigned)
        /\ pass'.err = "nil" =>
             \A i \in 1..Len(instances) :
               (instances[i].pod /\ instances[i].id # DesiredID(instances[i]))
                 => instances[i].id \in DOMAIN pending' ]_vars

C4_Witness ==
  /\ pass.err = "nil"
  /\ \E i \in 1..Len(instances) :
       /\ instances[i].pod
       /\ instances[i].id # DesiredID(instances[i])
       /\ instances[i].id \in DOMAIN pending
       /\ instances[i].id \notin Range(pass.assigned)
       /\ pending[instances[i].id].address # instances[i].addr

\* C5: a pass newly inserts an instance into PendingRemovals if and only if it
\* has a pod, is not already pending removal, and its identifier differs from
\* the desired one or UpdatePodsByReplacement is set and its last-applied-spec
\* differs from the desired hash; without UpdatePodsByReplacement a hash
\* difference alone inserts nothing.
C5_InsertedIffMisconfigured ==
  [][ PassStep =>
        /\ Range(pass'.assigned) \subseteq ExpectedRemovals
        /\ pass'.err \in { "nil", "UpdateError" } =>
             Range(pass'.assigned) = ExpectedRemovals
        /\ pass'.err = "nil" =>
             (DOMAIN pending') \ (DOMAIN pending) = ExpectedRemovals ]_vars

C5_Witness ==
  /\ pass.err = "nil"
  /\ rspec.byReplacement
  /\ \E i \in 1..Len(instances) :
       /\ instances[i].id \in Range(pass.assigned)
       /\ instances[i].id = DesiredID(instances[i])
       /\ instances[i].id \in DOMAIN pending

\* C6: a pass in which no call fails writes the status once when it added an
\* entry and not at all when it added none, and reports done in both cases; no
\* pass writes the status more than once, or at all when it added no entry.
C6_StatusWrittenOncePerPass ==
  [][ PassStep =>
        /\ pass'.writes <= 1
        /\ pass'.assigned = << >> => (pass'.writes = 0 /\ pending' = pending)
        /\ pass'.err = "nil" =>
             /\ pass'.done
             /\ pass'.writes = IF pass'.assigned # << >> THEN 1 ELSE 0
             /\ pass'.writes = 1 <=> pending' # pending ]_vars

C6_Witness ==
  /\ pass.err = "nil"
  /\ pass.done
  /\ pass.writes = 1
  /\ Len(pass.assigned) >= 1

\* C7: the volume-claim loop adds no entry to PendingRemovals and lists no
\* instance, whatever the claims' last-applied-spec annotations are; every
\* entry a pass adds comes from the instance loop.
C7_VolumeClaimPathDisabled ==
  [][ PassStep =>
        /\ pass'.pvcAssigned = << >>
        /\ pass'.pvcLookups = 0
        /\ (DOMAIN pending') \ (DOMAIN pending) \subseteq Range(pass'.assigned) ]_vars

C7_Witness ==
  /\ pass.err = "nil"
  /\ \E k \in 1..Len(pvcs) :
       /\ pvcs[k].owned
       /\ pvcs[k].lastSpec # << "pvc", rspec.template >>
       /\ pvcs[k].id \notin DOMAIN pending
       /\ \E i \in 1..Len(instances) : instances[i].id = pvcs[k].id

\* The connection string whose coordinators are the first n listed pods, in
\* list order.
RECURSIVE InListOrder(_)
InListOrder(n) ==
  IF n = 0 THEN ConnectionStringPrefix(clusterName)
  ELSE AppendCoordinator(InListOrder(n - 1), n - 1, pods[n].ip)

\* C11: the addresses of a persisted connection string appear in the order in
\* which their pods are listed, under every interleaving of the concurrent
\* address lookups (for pods 10.0.0.1, 10.0.0.2, 10.0.0.3 the string ends in
\* "@10.0.0.1:4500,10.0.0.2:4500,10.0.0.3:4500").
C11_CoordinatorsInListOrder ==
  store.connectionString # << >> =>
    store.connectionString = InListOrder(DesiredCoordinatorCount)

\* What getPodClient has to deliver for a task that leaves its lookup: one
\* client or one error; a client carries the address the pod was listed with
\* or, after the wait, the address the platform holds now; while the pod has
\* no address the only way out of the wait is the error of the pod re-fetch.
OneClientOrError(task, clients, errs) ==
  LET listed == task.ip
      now == pods[PodIndex(task.id)].ip
  IN  /\ Len(clients) + Len(errs) = 1
      /\ clients # << >> =>
           /\ clients[1] # NoIP
           /\ clients[1] = IF listed # NoIP THEN listed ELSE now
      /\ errs # << >> =>
           /\ errs[1] \in { "ClientError", "GetError" }
           /\ errs[1] = "GetError" => listed = NoIP
      /\ (listed = NoIP /\ now = NoIP) => errs = << "GetError" >>

\* C12: every getPodClient call delivers exactly one of a client or an error;
\* while the provider reports that no address is assigned the call goes on
\* waiting and re-fetching, it delivers the client once the address is
\* assigned, and any other provider error or a re-fetch error is reported
\* at once.
C12_GetPodClientRetries ==
  [][ /\ (pc = "gicfLoop" /\ pc' = "gicfLoop") =>
           \A t \in 1..Len(tasks) :
             (tasks[t].st = "client" /\ tasks'[t].st # "client") =>
               OneClientOrError(tasks[t],
                 SubSeq(clientChan', Len(clientChan) + 1, Len(clientChan')),
                 tasks'[t].sends)
      /\ (pc = "ucmJoin" /\ pc' = "ucmJoin") =>
           \A t \in 1..Len(tasks) :
             (tasks[t].st = "client" /\ tasks'[t].st # "client") =>
               LET sends == tasks'[t].sends IN
               IF sends = << "nil" >> \/ tasks'[t].more
                 THEN OneClientOrError(tasks[t],
                        << IF tasks[t].ip # NoIP THEN tasks[t].ip
                           ELSE pods[PodIndex(tasks[t].id)].ip >>, << >>)
                 ELSE OneClientOrError(tasks[t], << >>, sends) ]_vars

C12_Witness ==
  /\ pc = "gicfLoop"
  /\ \E t \in 1..Len(tasks) :
       /\ tasks[t].st = "client"
       /\ tasks[t].ip = NoIP
       /\ pods[PodIndex(tasks[t].id)].ip # NoIP
  /\ \E u \in 1..Len(tasks) :
       /\ tasks[u].st = "client"
       /\ tasks[u].ip = NoIP
       /\ pods[PodIndex(tasks[u].id)].ip = NoIP
  /\ clientChan # << >>

\* C13: the config map is regenerated with a connection string only after the
\* spec update carrying it; when generateInitialClusterFile returns nil after
\* building a connection string, the config map's cluster-file equals the
\* persisted ConnectionString; when the spec update fails the step returns the
\* error and the config map is left as it is.
C13_PersistThenRegenerate ==
  [][ /\ configMap' # configMap =>
           /\ configMap'.data.clusterFile = store.connectionString
           /\ store' = store
      /\ ( /\ caller = "generateInitialClusterFile"
           /\ Len(completed') > Len(completed) ) =>
             /\ completed'[Len(completed')] = "generateInitialClusterFile"
             /\ store'.connectionString # << >>
             /\ configMap'.exists
             /\ configMap'.data.clusterFile = store'.connectionString
      /\ ( /\ pc = "gicfLoop"
           /\ pc' # pc
           /\ ~MoreCoordinators(loopIdx, DesiredCoordinatorCount)
           /\ store'.connectionString = << >> ) =>
             /\ pc' = "idle"
             /\ lastErr' = "UpdateError"
             /\ configMap' = configMap
      /\ ( /\ pc = "gicfLoop"
           /\ store'.connectionString # << >> ) =>
             /\ pc' = "updateConfigMap"
             /\ caller' = "generateInitialClusterFile"
             /\ configMap' = configMap ]_vars

C13_Witness ==
  /\ pc = "ucmJoin"
  /\ caller = "generateInitialClusterFile"
  /\ loopIdx > Len(tasks)
  /\ store.connectionString # << >>
  /\ configMap.data.clusterFile = store.connectionString

\* C16: when a step that spawned per-pod tasks returns (updateConfigMap,
\* generateInitialClusterFile, on success and on every error path), every task
\* it spawned has finished: none is still in its lookup or blocked in a send.
C16_TasksJoinedBeforeReturn ==
  [][ (pc \in { "gicfLoop", "ucmJoin" } /\ pc' # pc) =>
        LET unfinished == { t \in 1..Len(tasks) : tasks[t].st # "done" } IN
        \/ unfinished = { }
        \/ \E t \in unfinished :
             \* the task whose last send the step has just received
             /\ unfinished = { t }
             /\ tasks[t].st = "send"
             /\ ~tasks[t].more
             /\ pc = "ucmJoin" => t = loopIdx ]_vars

\* C17: when creating the admin client or ConfigureDatabase fails,
\* updateDatabaseConfiguration returns that error and configured stays false
\* in memory and in the store; as long as the stored flag is false a pass that
\* reaches the step calls ConfigureDatabase (again): it ends with one of the
\* call's errors or with the database configured; configured is never true
\* for a database that was not configured.
C17_ConfigureRetried ==
  [][ (pc = "updateDatabaseConfiguration" /\ pc' # pc) =>
        /\ lastErr' \in { "AdminError", "ConfigureError" } =>
             /\ pc' = "idle"
             /\ cluster' = cluster
             /\ store' = store
             /\ db' = db
             /\ ~cluster'.configured
             /\ ~store'.configured
        /\ ~store.configured =>
             \/ lastErr' \in { "AdminError", "ConfigureError" }
             \/ db'.configured
        /\ cluster'.configured => db'.configured
        /\ store'.configured => db'.configured ]_vars

C17_Witness ==
  /\ pc = "idle"
  /\ lastErr = "ConfigureError"
  /\ completed = SubSeq(PipelineOrder, 1, 4)
  /\ ~cluster.configured
  /\ ~store.configured
  /\ ~db.configured

\* C18: a step whose write of the cluster object fails with a conflict
\* re-fetches the object and re-applies its change within the step, so the
\* error of the write is never what Reconcile returns. ("UpdateError" is any
\* error of r.Update, a conflict included: the code does not tell them apart.)
C18_ConflictRetriedInStep == lastErr # "UpdateError"

\* C19: the wait of getPodClient for a pod's address always ends, also when
\* the address is never assigned: the step that started the lookups
\* terminates.
C19_AddressWaitEnds == (pc = "gicfLoop") ~> (pc # "gicfLoop")

\* A converged cluster: replication mode and storage engine set, the config
\* map equal to the desired one, as many pods as desired, ConnectionString set
\* and configured true.
FullyConverged ==
  /\ store.replicationMode # ""
  /\ store.storageEngine # ""
  /\ configMap.exists
  /\ configMap.data = GetConfigMap(clusterName, store)
  /\ Len(pods) = DesiredProcessCount(store)
  /\ store.connectionString # << >>
  /\ store.configured

\* C20: on a converged cluster no step of Reconcile creates, updates or
\* deletes a platform object or calls ConfigureDatabase: cluster object, config
\* map, pod set and database stay as they are, no step returns the error of a
\* write (every write can fail, so no write is attempted), and the coordinator
\* bootstrap is not entered; any number of passes leaves the state of one.
C20_ConvergedPassWritesNothing ==
  [][ FullyConverged =>
        /\ store' = store
        /\ configMap' = configMap
        /\ [ i \in 1..Len(pods') |-> pods'[i].id ] =
             [ i \in 1..Len(pods) |-> pods[i].id ]
        /\ db' = db
        /\ lastErr' \notin { "UpdateError", "CreateError", "AdminError",
                             "ConfigureError" }
        /\ pc' # "gicfLoop"
        /\ FullyConverged' ]_vars

C20_Witness ==
  /\ FullyConverged
  /\ pc = "updateDatabaseConfiguration"
  /\ completed = SubSeq(PipelineOrder, 1, 4)
  /\ cluster = store
  /\ Len(pods) > DesiredCoordinatorCount

\* A step of UpdateConfigMap.Reconcile (every other step clears sync).
SyncStep == sync'.err # "none"

\* The hash of the shared config object the pass works with.
CurrentConfHash == GetDynamicConfHash(GetConfigMap(clusterName, cluster))

\* C14: a pass of UpdateConfigMap pushes the dynamic conf only to instances
\* whose last-applied-dynamic-conf annotation differs from the hash of the
\* current config map; an instance whose annotation matches is neither pushed
\* to nor updated; an annotation changes only to the new hash and only after
\* the push to that instance succeeded.
C14_PushOnlyWhereHashDiffers ==
  [][ SyncStep =>
        /\ Len(instances') = Len(instances)
        /\ \A i \in 1..Len(instances) :
             /\ (i \in Range(sync'.pushed) \/ i = sync'.failed) =>
                  instances[i].lastConf # CurrentConfHash
             /\ instances[i].lastConf = CurrentConfHash =>
                  /\ i \notin Range(sync'.pushed)
                  /\ i \notin Range(sync'.stamped)
                  /\ instances'[i] = instances[i]
             /\ instances'[i] # instances[i] =>
                  /\ i \in Range(sync'.pushed)
                  /\ i \in Range(sync'.stamped)
                  /\ instances'[i] =
                       [ instances[i] EXCEPT !.lastConf = CurrentConfHash ]
             /\ i \in Range(sync'.stamped) => i \in Range(sync'.pushed)
        /\ sync'.pushed # << >> =>
             /\ configMap'.exists
             /\ GetDynamicConfHash(configMap'.data) = CurrentConfHash ]_vars

C14_Witness ==
  /\ sync.err = "nil"
  /\ sync.done
  /\ Len(sync.pushed) = 1
  /\ sync.stamped = sync.pushed
  /\ \A i \in 1..Len(instances) : instances[i].lastConf = CurrentConfHash

\* C15: when the push to an instance fails or reports not-synced, the pass
\* does not report done (it returns not-done, with the error if there is
\* one), the annotation of that instance and of every instance after it is
\* left as it was, and a pass that reports done has left no instance with an
\* annotation other than the current hash.
C15_PushFailureNotSkipped ==
  [][ SyncStep =>
        /\ sync'.failed # 0 =>
             /\ ~sync'.done
             /\ sync'.err \in { "nil", "PushError" }
             /\ \A i \in sync'.failed..Len(instances) :
                  /\ instances'[i] = instances[i]
                  /\ i \notin Range(sync'.stamped)
        /\ (sync'.done /\ ~sync'.created) =>
             /\ sync'.failed = 0
             /\ sync'.err = "nil"
             /\ \A i \in 1..Len(instances) :
                  instances'[i].lastConf = CurrentConfHash ]_vars

C15_Witness ==
  /\ ~sync.done
  /\ sync.err = "nil"
  /\ sync.failed = 2
  /\ sync.pushed = << 1 >>
  /\ instances[1].lastConf = CurrentConfHash
  /\ instances[2].lastConf # CurrentConfHash

\* C15, for updateConfigMap of the pipeline: a task whose lookup or push
\* failed sends the error first, and updateConfigMap returns nil only when
\* every task has sent nil and nothing else.
C15_PipelinePushFailureReturned ==
  [][ /\ (pc = "ucmJoin" /\ pc' = "ucmJoin") =>
           \A t \in 1..Len(tasks) :
             ( /\ tasks[t].st = "client"
               /\ tasks'[t].st # "client"
               /\ tasks'[t].sends # << "nil" >> ) =>
                 Head(tasks'[t].sends) # "nil"
      /\ (pc = "ucmJoin" /\ pc' # pc /\ lastErr' \in { "nil", "pending" }) =>
           \A t \in 1..Len(tasks) : tasks[t].st = "done" ]_vars

\* ------------------------------------------------- after the faults have ended
\* From now on no call to the platform, a sidecar or the admin client fails.
Heal ==
  /\ faulty
  /\ faulty' = FALSE
  /\ UNCHANGED << pipeVars, rmpVars, auxVars >>

HealNext == Next \/ Heal

\* Calls fail for some time and then no more; the controller keeps being
\* triggered, a runnable goroutine eventually runs and the platform eventually
\* assigns every address.
HealSpec == Init /\ [][HealNext]_vars /\ WF_vars(Next)

\* The pods whose identifiers the persisted NextInstanceID does not cover:
\* addPods created them and returned before its Update of the cluster object
\* was persisted.
UnrecordedPods ==
  { i \in 1..Len(pods) : pods[i].id >= Max(store.nextInstanceID, 1) }

\* C21: from a state that an aborted addPods left behind (pods created whose
\* identifiers the persisted NextInstanceID does not cover: some of the new
\* pods, or all of them), once calls no longer fail, repeated reconciles
\* eventually bring the number of pods to the desired count.
C21_PartialAddPodsConverges ==
  (~faulty /\ pc = "idle" /\ UnrecordedPods # { })
    ~> (Len(pods) = DesiredProcessCount(store))

\* ------------------------------------------- two clusters on one platform
\* Names are strings; a string is the sequence of its characters, so that
\* the names built by fmt.Sprintf can be compared as the platform compares
\* them.
MaxClusterPods == 2

Digit(n) ==
  << "0", "1", "2", "3", "4", "5", "6", "7", "8", "9" >>[n + 1]

\* strconv.Itoa, "%d"
RECURSIVE Itoa(_)
Itoa(n) ==
  IF n < 10 THEN << Digit(n) >> ELSE Itoa(n \div 10) \o << Digit(n % 10) >>

Dash == << "-" >>

ConfigSuffix == << "c", "o", "n", "f", "i", "g" >>

\* The cluster objects a platform may hold: two names in one namespace, the
\* first a prefix of the second, and the first name again in another
\* namespace.
ClusterKeys ==
  << [ ns |-> "ns1", name |-> << "a" >> ],
     [ ns |-> "ns1", name |-> << "a", "-", "1" >> ],
     [ ns |-> "ns2", name |-> << "a" >> ] >>

\* The connection string a user gives a cluster that has none.
UserConnectionString == "a:init@10.0.0.1:4500"

ClusterIds == { 1, 2 }

OtherCluster(c) == 3 - c

\* getPodLabels
\* Mutant: the selector has no cluster-name label.
GetPodLabels_NoClusterName(obj, processClass) ==
  IF processClass # ""
    THEN ("fdb-process-class" :> processClass)
    ELSE << >>

\* Mutant: the process-class label is set for the empty process class too.
GetPodLabels_ClassAlways(obj, processClass) ==
  ("fdb-cluster-name" :> obj.name) @@ ("fdb-process-class" :> processClass)

GetPodLabels(obj, processClass) ==
  IF processClass # ""
    THEN ("fdb-cluster-name" :> obj.name)
           @@ ("fdb-process-class" :> processClass)
    ELSE ("fdb-cluster-name" :> obj.name)

\* getPodListOptions: InNamespace(...).MatchingLabels(...)
GetPodListOptions(obj, processClass) ==
  [ namespace |-> obj.ns, labels |-> GetPodLabels(obj, processClass) ]

\* The platform's List: the objects of the namespace that carry every label
\* of the selector.
Selects(options, object) ==
  /\ object.ns = options.namespace
  /\ \A k \in DOMAIN options.labels :
       /\ k \in DOMAIN object.labels
       /\ object.labels[k] = options.labels[k]

ListPods(options) == { p \in mc.pods : Selects(options, p) }

\* GetPod: the metadata of the pod of an identifier.
GetPodObject(obj, processClass, id) ==
  [ ns     |-> obj.ns,
    name   |-> obj.name \o Dash \o Itoa(id),
    labels |-> ("fdb-cluster-name" :> obj.name)
                 @@ ("fdb-process-class" :> processClass)
                 @@ ("fdb-instance-id" :> Itoa(id)) ]

\* GetConfigMap: namespace, name, labels and the data that depends on the
\* cluster's connection string.
GetConfigMapObject(obj) ==
  [ ns     |-> obj.ns,
    name   |-> obj.name \o Dash \o ConfigSuffix,
    labels |-> ("fdb-cluster-name" :> obj.name),
    data   |-> obj.connectionString ]

ObjectKey(o) == << o.ns, o.name >>

\* The cluster file of a pod that no connection string was pushed to.
NoConf == ""

McSet(c, rec) == [ mc EXCEPT !.cl[c] = rec ]


\* The variables of the other worlds, at rest.
AtRest == InitState /\ store = NewCluster(2) /\ faulty = FALSE

\* The end of a pass of the reconcile of a cluster object.
McReturn(o) == [ o EXCEPT !.pc = "idle", !.id = 0, !.todo = 0 ]

NewClusterObject(key, n) ==
  [ ns |-> key.ns, name |-> key.name,
    processCount |-> n, connectionString |-> "", nextInstanceID |-> 0,
    pc |-> "idle", id |-> 0, todo |-> 0 ]

\* The platform of this world: two distinct cluster objects, no pods and no
\* config maps yet.
MultiInit ==
  /\ AtRest
  /\ bld = NoBuild
  /\ \E k1 \in 1..Len(ClusterKeys), k2 \in 1..Len(ClusterKeys),
        n1 \in 1..MaxClusterPods, n2 \in 1..MaxClusterPods :
       /\ k1 < k2
       /\ mc = [ cl   |-> << NewClusterObject(ClusterKeys[k1], n1),
                             NewClusterObject(ClusterKeys[k2], n2) >>,
                 pods |-> { },
                 maps |-> { } ]

McUnchanged == UNCHANGED << pipeVars, faulty, rmpVars, bld >>

\* Reconcile of cluster object c starts: Get of the object (lines 115-125).
McTrigger(c) ==
  LET o == mc.cl[c] IN
  /\ o.pc = "idle"
  /\ mc' = McSet(c, [ o EXCEPT !.pc = "updateConfigMap" ])
  /\ McUnchanged

\* The user edits the spec of cluster object c between two passes of its
\* reconcile: another process count, or a connection string for a cluster
\* that has none.
McChangeSpec(c) ==
  LET o == mc.cl[c] IN
  /\ o.pc = "idle"
  /\ \/ \E n \in 1..MaxClusterPods :
          /\ n # o.processCount
          /\ mc' = McSet(c, [ o EXCEPT !.processCount = n ])
     \/ /\ o.connectionString = ""
        /\ mc' = McSet(c, [ o EXCEPT !.connectionString = UserConnectionString ])
  /\ McUnchanged

\* updateConfigMap, first half: Get, then Create or Update of the config map.
McUpdateConfigMap(c) ==
  LET o == mc.cl[c]
      configMap_ == GetConfigMapObject(o)
      existing == { m \in mc.maps : ObjectKey(m) = ObjectKey(configMap_) }
  IN
  /\ o.pc = "updateConfigMap"
  /\ IF existing = { }
       THEN mc' = [ mc EXCEPT !.maps = @ \cup { configMap_ },
                              !.cl[c].pc = "addPods" ]
       ELSE LET e == CHOOSE m \in existing : TRUE IN
            IF e.data # configMap_.data \/ e.labels # configMap_.labels
              THEN mc' = [ mc EXCEPT
                           !.maps = (@ \ { e }) \cup
                                    { [ e EXCEPT !.labels = configMap_.labels,
                                                 !.data = configMap_.data ] },
                           !.cl[c].pc = "push" ]
              ELSE mc' = [ mc EXCEPT !.cl[c].pc = "push" ]
  /\ McUnchanged

\* updateConfigMap, second half: List with the cluster-wide filter and one
\* updatePodDynamicConf per listed pod.
McPushConf(c) ==
  LET o == mc.cl[c]
      listed == ListPods(GetPodListOptions(o, ""))
  IN
  /\ o.pc = "push"
  /\ mc' = [ mc EXCEPT
             !.pods = { IF p \in listed
                          THEN [ p EXCEPT !.conf = o.connectionString ]
                          ELSE p : p \in @ },
             !.cl[c].pc = "addPods" ]
  /\ McUnchanged

\* addPods: List with the filter of the process class and the count of the
\* pods to create.
McListPods(c) ==
  LET o == mc.cl[c]
      existingPods == ListPods(GetPodListOptions(o, "storage"))
      newCount == o.processCount - Cardinality(existingPods)
  IN
  /\ o.pc = "addPods"
  /\ mc' = McSet(c, IF newCount > 0
                       THEN [ o EXCEPT !.todo = newCount,
                                       !.id = Max(o.nextInstanceID, 1),
                                       !.pc = "create" ]
                       ELSE McReturn(o))
  /\ McUnchanged

\* addPods: one Create of the loop. The platform rejects a name that exists
\* in the namespace, and any Create may fail.
McCreatePod(c) ==
  LET o == mc.cl[c]
      pod == GetPodObject(o, "storage", o.id)
      exists == \E q \in mc.pods : ObjectKey(q) = ObjectKey(pod)
  IN
  /\ o.pc = "create"
  /\ o.todo > 0
  /\ \E ok \in BOOLEAN :
       IF ok /\ ~exists
         THEN mc' = [ mc EXCEPT
                      !.pods = @ \cup { pod @@ [ conf |-> NoConf, by |-> c ] },
                      !.cl[c].id = @ + 1,
                      !.cl[c].todo = @ - 1,
                      !.cl[c].pc = IF o.todo = 1 THEN "update" ELSE "create" ]
         ELSE mc' = McSet(c, McReturn(o))
  /\ McUnchanged

\* addPods: Update of the cluster object with the new NextInstanceID, which
\* may fail.
McUpdateCluster(c) ==
  LET o == mc.cl[c] IN
  /\ o.pc = "update"
  /\ \E ok \in BOOLEAN :
       IF ok
         THEN mc' = McSet(c, McReturn([ o EXCEPT !.nextInstanceID = o.id ]))
         ELSE mc' = McSet(c, McReturn(o))
  /\ McUnchanged

\* A step of the reconcile of cluster object c.
McReconcile(c) ==
  \/ McTrigger(c)
  \/ McUpdateConfigMap(c)
  \/ McPushConf(c)
  \/ McListPods(c)
  \/ McCreatePod(c)
  \/ McUpdateCluster(c)

MultiNext ==
  \E c \in ClusterIds :
    \/ McReconcile(c)
    \/ McChangeSpec(c)

MultiSpec == MultiInit /\ [][MultiNext]_vars

\* The step is one of the reconcile of cluster object c: its position in the
\* pass or in the loop of addPods changes (an edit by the user changes
\* neither).
McStep(c) ==
  << mc'.cl[c].pc, mc'.cl[c].id >> # << mc.cl[c].pc, mc.cl[c].id >>

\* The pods that the reconcile of cluster object c created.
CreatedBy(c) == { p \in mc.pods : p.by = c }

CarriesLabel(o, obj) ==
  /\ o.ns = obj.ns
  /\ "fdb-cluster-name" \in DOMAIN o.labels
  /\ o.labels["fdb-cluster-name"] = obj.name

\* C22: a step of the reconcile of cluster object A, interleaved in any way
\* with the steps of cluster object B, creates and changes only pods and
\* config maps in A's namespace that carry A's cluster-name label, decides
\* the number of pods to create from the pods it created itself alone, is
\* never refused a Create because of a pod of B,
\* and leaves B's object (spec and status), B's pods and B's config map as
\* they are.
C22_ReconcilesIndependent ==
  [][ \A c \in ClusterIds :
        McStep(c) =>
          LET a == mc.cl[c]
              b == OtherCluster(c)
          IN
          /\ mc'.cl[b] = mc.cl[b]
          /\ \A p \in mc.pods : p.by = b => p \in mc'.pods
          /\ \A p \in mc'.pods \ mc.pods : CarriesLabel(p, a)
          /\ \A p \in mc.pods \ mc'.pods : CarriesLabel(p, a) /\ p.by = c
          /\ \A m \in mc.maps : ~CarriesLabel(m, a) => m \in mc'.maps
          /\ \A m \in mc'.maps \ mc.maps : CarriesLabel(m, a)
          /\ a.pc = "addPods" =>
               mc'.cl[c].todo =
                 Max(0, a.processCount - Cardinality(CreatedBy(c)))
          /\ a.pc = "create" =>
               \A q \in mc.pods :
                 ObjectKey(q) = ObjectKey(GetPodObject(a, "storage", a.id))
                   => q.by = c ]_vars

\* Both cluster objects live in one namespace, each has a pod, and the
\* reconcile of the first has listed its pods and is creating one while the
\* reconcile of the second, which has pushed to its pod, is between two steps.
C22_Witness ==
  /\ mc # NoPlatform
  /\ mc.cl[1].ns = mc.cl[2].ns
  /\ CreatedBy(1) # { } /\ CreatedBy(2) # { }
  /\ mc.cl[1].pc = "create"
  /\ mc.cl[2].pc \in { "push", "create", "update" }
  /\ \E p \in CreatedBy(2) : p.conf # NoConf

\* ------------------------------------------------- losing an annotation
\* An instance's pod is edited and comes back without the last-applied-spec
\* annotation.
LoseSpecAnnotation ==
  /\ \E i \in 1..Len(instances) :
       /\ instances[i].pod
       /\ instances[i].lastSpec # NoHash
       /\ instances' = [ instances EXCEPT ![i].lastSpec = NoHash ]
  /\ Returned
  /\ sync' = NoSync
  /\ UNCHANGED << rspec, pvcs, pending, faulty, pipeVars, auxVars >>

\* A cluster whose spec never changes except for UpdatePodsByReplacement, and
\* whose instances were all created under that spec: as long as no annotation
\* is lost no instance is ever marked for removal.
LossNext ==
  \/ UpdateConfigMapReconcile
  \/ ReplaceMisconfiguredPods
  \/ ToggleUpdatePodsByReplacement
  \/ LoseAnnotation
  \/ LoseSpecAnnotation

LossSpec == UcmInit /\ [][LossNext]_vars

\* C23: losing the last-applied-spec or the last-applied-dynamic-conf
\* annotation of an instance is safe. The cluster keeps its instances, its
\* PendingRemovals stay what they are when no annotation is lost (empty), and
\* a complete pass of UpdateConfigMap leaves the config map and every
\* instance's dynamic-conf annotation as they are when none was lost.
C23_AnnotationLossIsSafe ==
  /\ \A i \in 1..Len(instances) : instances[i].pod
  /\ pending = << >>
  /\ (sync.done /\ sync.err = "nil" /\ ~sync.created) =>
       /\ configMap.data = GetConfigMap(clusterName, cluster)
       /\ \A i \in 1..Len(instances) :
            instances[i].lastConf = GetDynamicConfHash(configMap.data)

\* ------------------------------------------------ malformed identifiers
\* The instance-id label of the last volume claim is edited into one whose
\* trailing component is not a positive integer.
ChangeClaim ==
  /\ \E i \in 1..Len(pvcs) :
       /\ i = Len(pvcs)
       /\ ParseInstanceID(pvcs[i].id).err = "nil"
       /\ pvcs' = [ pvcs EXCEPT ![i].id = InstanceID("", pvcs[i].processClass, 0) ]
  /\ Returned
  /\ UNCHANGED << rspec, instances, pending, sync, faulty, pipeVars, auxVars >>

\* The passes over a cluster whose prefix the user edits and whose instances
\* and volume claims the platform changes.
MalNext ==
  \/ ReplaceMisconfiguredPods
  \/ EditPrefix
  \/ ChangeInstance
  \/ ChangeClaim

MalSpec == RmpInit /\ [][MalNext]_vars

\* An instance with a pod, or an owned volume claim, that is not pending
\* removal and whose identifier does not parse.
MalformedPresent ==
  \/ \E i \in 1..Len(instances) :
       /\ instances[i].pod
       /\ ~PendingRemoval(pending, instances[i].id)
       /\ ParseInstanceID(instances[i].id).err # "nil"
  \/ \E i \in 1..Len(pvcs) :
       /\ pvcs[i].owned
       /\ ~PendingRemoval(pending, pvcs[i].id)
       /\ ParseInstanceID(pvcs[i].id).err # "nil"

\* C24: a pass of ReplaceMisconfiguredPods over a cluster that holds an
\* instance or an owned volume claim, not pending removal, whose identifier
\* has a trailing component that is not a positive integer returns an error
\* and persists no change to PendingRemovals, whatever it had decided for the
\* instances it examined before.
C24_MalformedIdentifierAbortsPass ==
  [][ (PassStep /\ MalformedPresent) =>
        /\ ~pass'.done
        /\ pass'.err # "nil"
        /\ pass'.writes = 0
        /\ pending' = pending ]_vars

\* A pass decided to remove the first instance and then stopped at the
\* malformed identifier of a later one; PendingRemovals is still empty.
C24_Witness ==
  /\ pass.err = "MalformedIdentifier"
  /\ Len(pass.assigned) >= 1
  /\ pending = << >>
  /\ \A i \in 1..Len(pvcs) : ParseInstanceID(pvcs[i].id).err = "nil"

\* ------------------------------------------------- the resource builders
\* The pure functions that build names, labels and resources, applied to
\* inputs drawn from small sets.
MaxInstanceNumber == 2

BuildPrefixes == { "", "dc1", "dc-1" }

BuildClasses == { "storage", "cluster_controller", "log-router" }

\* A field of the cluster spec that the user did not set.
Unset == "unset"

\* The resource requirements of the main container: the built-in ones and
\* those a user writes in a layer.
DefaultResources == "cpu 1, memory 1Gi"

ResourceValues == { Unset, DefaultResources, "cpu 2, memory 8Gi" }

\* The size of the data volume: the built-in one and those a user writes.
DefaultStorage == "128G"

StorageValues == { Unset, "0", "64G" }

\* The suffix of the name of the volume claim.
DefaultSuffix == << "d", "a", "t", "a" >>

SuffixValues == { Unset, "pvc1" }

\* The names of the clusters of the namespace "my-ns".
BuildClusterNames == { << "a" >>, << "a", "-", "1" >> }

BuildCluster(name) == [ ns |-> "my-ns", name |-> name ]

\* The cluster spec and the instance a builder is called for. flat is the
\* deprecated Spec.Resources, global the main container of Spec.PodTemplate,
\* perClass the main container of Processes[class].PodTemplate; volumeSize is
\* the deprecated Spec.VolumeSize, globalClaim the request of
\* Spec.VolumeClaim, perClassClaim that of Processes[class].VolumeClaim.
\* The user overrides the resources or the storage.
BuildInputs ==
  { in \in
      [ name : BuildClusterNames, prefix : BuildPrefixes,
        processClass : BuildClasses, n : 1..MaxInstanceNumber,
        flat : ResourceValues, global : ResourceValues,
        perClass : ResourceValues,
        volumeSize : StorageValues, globalClaim : StorageValues,
        perClassClaim : StorageValues, suffix : SuffixValues ] :
      \/ in.flat = Unset /\ in.global = Unset /\ in.perClass = Unset
      \/ /\ in.volumeSize = Unset /\ in.globalClaim = Unset
         /\ in.perClassClaim = Unset /\ in.suffix = Unset }

NoCall == [ call |-> "none" ]

BuildInit ==
  /\ AtRest
  /\ mc = NoPlatform
  /\ \E i \in BuildInputs : bld = [ in |-> i, last |-> NoCall ]

BuildUnchanged == UNCHANGED << pipeVars, faulty, rmpVars, mc >>

\* ParseInstanceID applied to the identifier that InstanceID builds.
CallParseInstanceID ==
  /\ bld' = [ bld EXCEPT !.last =
       [ call |-> "ParseInstanceID",
         id   |-> InstanceID(bld.in.prefix, bld.in.processClass, bld.in.n),
         out  |-> ParseInstanceID(InstanceID(bld.in.prefix, bld.in.processClass,
                                             bld.in.n)) ] ]
  /\ BuildUnchanged

HasDash(str) == Len(Components(str)) > 1

\* C25 as stated: for every prefix (also the empty one), every process class
\* (also one that contains "_" or "-") and every positive n,
\* ParseInstanceID(InstanceID(prefix, processClass, n)) is (processClass, n)
\* without error.
C25_RoundTripAnyClass ==
  bld.last.call = "ParseInstanceID" =>
    /\ bld.last.out.err = "nil"
    /\ bld.last.out.processClass = bld.in.processClass
    /\ bld.last.out.num = bld.in.n

\* C25 as amended: the same for the process classes that contain no "-".
C25_RoundTrip ==
  (bld.last.call = "ParseInstanceID" /\ ~HasDash(bld.in.processClass)) =>
    /\ bld.last.out.err = "nil"
    /\ bld.last.out.processClass = bld.in.processClass
    /\ bld.last.out.num = bld.in.n

\* The identifier of a process class with "_" under a prefix with "-" was
\* parsed.
C25_Witness ==
  /\ bld.last.call = "ParseInstanceID"
  /\ bld.in.processClass = "cluster_controller"
  /\ bld.in.prefix = "dc-1"
  /\ bld.in.n > 1

\* GetPod for the input, the two list filters of its cluster, and GetPod for
\* every other cluster name and process class.
CallGetPod ==
  /\ bld' = [ bld EXCEPT !.last =
       [ call   |-> "GetPod",
         pod    |-> GetPodObject(BuildCluster(bld.in.name), bld.in.processClass,
                                 bld.in.n),
         filter |-> GetPodListOptions(BuildCluster(bld.in.name),
                                      bld.in.processClass),
         wide   |-> GetPodListOptions(BuildCluster(bld.in.name), ""),
         others |-> { [ name |-> nm, processClass |-> pcl,
                        pod  |-> GetPodObject(BuildCluster(nm), pcl, bld.in.n) ] :
                      nm \in BuildClusterNames, pcl \in BuildClasses } ] ]
  /\ BuildUnchanged

PodLabelKeys == { "fdb-cluster-name", "fdb-process-class", "fdb-instance-id" }

Chars(str) ==
  CASE str = "storage" -> << "s", "t", "o", "r", "a", "g", "e" >>
    [] str = "cluster_controller" ->
         << "c", "l", "u", "s", "t", "e", "r", "_",
            "c", "o", "n", "t", "r", "o", "l", "l", "e", "r" >>
    [] str = "log-router" -> << "l", "o", "g", "-", "r", "o", "u", "t", "e", "r" >>
    [] str = "dc1" -> << "d", "c", "1" >>
    [] str = "dc-1" -> << "d", "c", "-", "1" >>
    [] str = "pvc1" -> << "p", "v", "c", "1" >>
    [] OTHER -> << >>

\* strings.ReplaceAll(s, "_", "-")
DashForUnderscore(s) == [ i \in DOMAIN s |-> IF s[i] = "_" THEN "-" ELSE s[i] ]

\* C27: GetPod(cluster, processClass, n) names the pod
\* "{clusterName}-{processClass with every _ written as -}-{n}", without the
\* instance-ID prefix; the fdb-instance-id label is "{prefix}-{processClass}-{n}"
\* when a prefix is set and "{processClass}-{n}" otherwise; the
\* fdb-process-class label is the process class as given.
C27_PodNameAndInstanceLabel ==
  bld.last.call = "GetPod" =>
    /\ bld.last.pod.name =
         bld.in.name \o Dash \o DashForUnderscore(Chars(bld.in.processClass))
           \o Dash \o Itoa(bld.in.n)
    /\ bld.last.pod.labels["fdb-instance-id"] =
         (IF bld.in.prefix # "" THEN Chars(bld.in.prefix) \o Dash ELSE << >>)
           \o Chars(bld.in.processClass) \o Dash \o Itoa(bld.in.n)
    /\ bld.last.pod.labels["fdb-process-class"] = bld.in.processClass

\* ---- the pod spec, its hash and the volume claim
\* A layer's value for a scalar field, or the value of the layers below it
\* when the layer leaves the field unset.
FillUnset_LowerWins(value, lower) == IF lower # Unset THEN lower ELSE value

FillUnset(value, lower) == IF value = Unset THEN lower ELSE value

\* The resources of the main container after the four layers.
ResolveResources(in) ==
  FillUnset(FillUnset(FillUnset(in.perClass, in.global), in.flat),
            DefaultResources)

\* The size of the data volume after the layers: deprecated size field, below
\* the global volume claim, below the per-class volume claim.
ResolveStorage_FlatOnly(in) == FillUnset(in.volumeSize, DefaultStorage)

ResolveStorage(in) ==
  FillUnset(FillUnset(FillUnset(in.perClassClaim, in.globalClaim),
                      in.volumeSize),
            DefaultStorage)

\* The process classes that keep data on their volume.
IsStateful(processClass) == processClass \in { "storage", "log", "transaction" }

\* The name of the pod of an instance.
InstanceName(in) ==
  in.name \o Dash \o DashForUnderscore(Chars(in.processClass)) \o Dash
    \o Itoa(in.n)

ClaimName(in) ==
  InstanceName(in) \o Dash
    \o (IF in.suffix = Unset THEN DefaultSuffix ELSE Chars(in.suffix))

\* No volume claim: the instance uses ephemeral storage.
NoClaim == [ nil |-> TRUE ]

\* BuildVolumeClaim (GetPvc)
BuildVolumeClaim(in) ==
  IF ResolveStorage(in) = "0" \/ ~IsStateful(in.processClass)
    THEN NoClaim
    ELSE [ nil |-> FALSE, name |-> ClaimName(in),
           accessModes |-> << "ReadWriteOnce" >>,
           request |-> ResolveStorage(in) ]

\* BuildPodSpec (GetPodSpec): the main container with its resources and its
\* identity, and the data volume.
BuildPodSpec(in) ==
  [ containers |-> << [ name |-> "foundationdb",
                        resources |-> ResolveResources(in),
                        instanceID |-> InstanceID(in.prefix, in.processClass,
                                                  in.n) ] >>,
    volumes |-> << IF BuildVolumeClaim(in).nil
                     THEN [ name |-> "data", source |-> "EmptyDir",
                            claimName |-> << >> ]
                     ELSE [ name |-> "data", source |-> "PersistentVolumeClaim",
                            claimName |-> ClaimName(in) ] >> ]

\* No override: the hash is that of the spec built for the instance.
NoOverride == [ volumes |-> << >>, containers |-> << >> ]

\* BuildPodSpecHash (GetPodSpecHash): a digest of the resolved spec, or of
\* the override when one is given.
BuildPodSpecHash_NoResources(in, overridePodSpec) ==
  LET spec == IF overridePodSpec = NoOverride THEN BuildPodSpec(in)
              ELSE overridePodSpec
  IN  << "sha", spec.volumes, spec.containers[1].instanceID >>

BuildPodSpecHash(in, overridePodSpec) ==
  << "sha", IF overridePodSpec = NoOverride THEN BuildPodSpec(in)
            ELSE overridePodSpec >>

LastSpecKey == "foundationdb.org/last-applied-spec"

\* GetPod of the tests: name, spec and the last-applied-spec annotation.
BuildPod(in) ==
  [ name |-> InstanceName(in),
    annotations |-> (LastSpecKey :> BuildPodSpecHash(in, NoOverride)),
    spec |-> BuildPodSpec(in) ]

CallBuildPodSpec ==
  /\ bld' = [ bld EXCEPT !.last =
       [ call |-> "BuildPodSpec", spec |-> BuildPodSpec(bld.in) ] ]
  /\ BuildUnchanged

\* The inputs that differ from in in the value of one override layer.
LayerNames == { "flat", "global", "perClass" }

LayerChanges(in) ==
  { c \in [ layer : LayerNames, value : ResourceValues ] :
      in[c.layer] # c.value }

ChangeLayer(in, c) == [ in EXCEPT ![c.layer] = c.value ]

\* The pod of the input with its annotation, the hash over the pod's own
\* spec, and the hash after each change of one override layer.
CallBuildPodSpecHash ==
  /\ bld' = [ bld EXCEPT !.last =
       [ call   |-> "BuildPodSpecHash",
         pod    |-> BuildPod(bld.in),
         hash   |-> BuildPodSpecHash(bld.in, NoOverride),
         ofPod  |-> BuildPodSpecHash(bld.in, BuildPod(bld.in).spec),
         changed |-> { [ change |-> c,
                         spec |-> BuildPodSpec(ChangeLayer(bld.in, c)),
                         hash |-> BuildPodSpecHash(ChangeLayer(bld.in, c),
                                                   NoOverride) ] :
                       c \in LayerChanges(bld.in) } ] ]
  /\ BuildUnchanged

CallBuildVolumeClaim ==
  /\ bld' = [ bld EXCEPT !.last =
       [ call  |-> "BuildVolumeClaim",
         claim |-> BuildVolumeClaim(bld.in),
         data  |-> BuildPodSpec(bld.in).volumes[1] ] ]
  /\ BuildUnchanged

\* ---- the fault-domain policy
\* The fault-domain policies of a cluster spec: the empty (host-based) one,
\* a custom key whose value comes from a field, and a key with a literal
\* value (replication across Kubernetes clusters).
HostnameKey == "kubernetes.io/hostname"

FaultDomains ==
  { [ key |-> "", value |-> "", valueFrom |-> "" ],
    [ key |-> "rack", value |-> "", valueFrom |-> "$RACK" ],
    [ key |-> "foundationdb.org/kubernetes-cluster", value |-> "kc2",
      valueFrom |-> "" ] }

\* No affinity: the Affinity field of the pod spec is nil.
NoAffinity == [ nil |-> TRUE ]

\* The pod anti-affinity of a policy: a preferred rule over the pods of the
\* same cluster and process class, or none when the policy carries a value.
FaultDomainAffinity_AlwaysRule(in, faultDomain) ==
  [ nil |-> FALSE, kind |-> "preferred", weight |-> 1,
    topologyKey |-> IF faultDomain.key = "" THEN HostnameKey
                    ELSE faultDomain.key,
    matchLabels |-> [ fdb_cluster_name |-> in.name,
                      fdb_process_class |-> in.processClass ] ]

FaultDomainAffinity(in, faultDomain) ==
  IF faultDomain.value # "" THEN NoAffinity
  ELSE [ nil |-> FALSE, kind |-> "preferred", weight |-> 1,
         topologyKey |-> IF faultDomain.key = "" THEN HostnameKey
                         ELSE faultDomain.key,
         matchLabels |-> [ fdb_cluster_name |-> in.name,
                           fdb_process_class |-> in.processClass ] ]

\* The identity environment of the containers under a policy: the machine id
\* is the node name; the zone id is the literal value, or the node name under
\* the default policy, or left to the field the policy names.
FaultDomainEnv(in, faultDomain) ==
  << [ name |-> "FDB_PUBLIC_IP", from |-> "status.podIP", value |-> "" ],
     [ name |-> "FDB_MACHINE_ID", from |-> "spec.nodeName", value |-> "" ] >>
  \o (IF faultDomain.value # ""
        THEN << [ name |-> "FDB_ZONE_ID", from |-> "",
                  value |-> faultDomain.value ] >>
      ELSE IF faultDomain.valueFrom = ""
        THEN << [ name |-> "FDB_ZONE_ID", from |-> "spec.nodeName",
                  value |-> "" ] >>
      ELSE << >>)
  \o << [ name |-> "FDB_INSTANCE_ID", from |-> "",
          value |-> InstanceID(in.prefix, in.processClass, in.n) ] >>

\* GetPodSpec for a cluster with a fault-domain policy: the affinity and the
\* environment of the init container next to the containers and volumes.
CallResolveFaultDomain ==
  /\ \E faultDomain \in FaultDomains :
       bld' = [ bld EXCEPT !.last =
         [ call        |-> "ResolveFaultDomain",
           faultDomain |-> faultDomain,
           affinity    |-> FaultDomainAffinity(bld.in, faultDomain),
           env         |-> FaultDomainEnv(bld.in, faultDomain),
           spec        |-> BuildPodSpec(bld.in) ] ]
  /\ BuildUnchanged

BuildNext ==
  \/ CallParseInstanceID
  \/ CallGetPod
  \/ CallBuildPodSpec
  \/ CallBuildPodSpecHash
  \/ CallBuildVolumeClaim
  \/ CallResolveFaultDomain

BuildSpec == BuildInit /\ [][BuildNext]_vars


SetLayers(in) == { l \in LayerNames : in[l] # Unset }

ZeroStorage(in) ==
  \/ in.perClassClaim = "0"
  \/ in.perClassClaim = Unset /\ in.globalClaim = "0"
  \/ in.perClassClaim = Unset /\ in.globalClaim = Unset /\ in.volumeSize = "0"

EnvOf(env, name) == { env[i] : i \in { j \in 1..Len(env) : env[j].name = name } }

AddPodsStep == pc = "addPods" /\ pc' # "addPods"

\* The numeric ids of the pods from position from on.
IdsFrom(ps, from) == [ i \in 1..(Len(ps) - from) |-> ps[from + i].id ]

\* C32: addPods deletes no pod; what it creates has consecutive ids from
\* max(NextInstanceID, 1); when it returns without error it has created
\* exactly max(0, desired - existing) pods and, if that is more than none,
\* has persisted NextInstanceID as the last assigned id plus one; when no pod
\* is missing it creates nothing and does not write the cluster object.
C32_AddPodsCreatesMissing ==
  [][ AddPodsStep =>
        LET missing == IF cluster.processCount > Len(pods)
                         THEN cluster.processCount - Len(pods) ELSE 0
            first == IF cluster.nextInstanceID < 1 THEN 1
                     ELSE cluster.nextInstanceID
            created == Len(pods') - Len(pods)
        IN  /\ Len(pods') >= Len(pods)
            /\ SubSeq(pods', 1, Len(pods)) = pods
            /\ created <= missing
            /\ IdsFrom(pods', Len(pods)) = [ i \in 1..created |-> first + i - 1 ]
            /\ pc' = "generateInitialClusterFile" =>
                 /\ created = missing
                 /\ missing > 0 => /\ store'.nextInstanceID = first + missing
                                   /\ cluster'.nextInstanceID = first + missing
                 /\ missing = 0 => store' = store /\ cluster' = cluster
      ]_vars

\* addPods has created more than one pod in a call and persisted the next id.
C32_Witness ==
  /\ pc = "generateInitialClusterFile"
  /\ Len(pods) >= 2
  /\ store.nextInstanceID = pods[Len(pods)].id + 1
  /\ pods[1].id = 1

\* C33 as stated: no two pods of the cluster carry the same numeric id, and
\* once addPods has returned without error in a pass the persisted
\* NextInstanceID is greater than the id of every pod addPods ever created
\* (no pod is ever deleted here, so these are the pods that exist).
C33_InstanceIdsUniqueAndBelowNext ==
  /\ \A i, j \in 1..Len(pods) : i # j => pods[i].id # pods[j].id
  /\ "addPods" \in Range(completed)
       => \A i \in 1..Len(pods) : pods[i].id < store.nextInstanceID

\* The pod template the instances of the cluster were built under.
BuiltTemplate == "v1"

\* An instance as the operator built it under the current spec: it has its
\* pod, a well-formed identifier that is the desired one, and the spec's pod
\* template is the one its last-applied-spec annotation was stamped for.
BuiltUnderCurrentSpec(inst) ==
  /\ inst.pod
  /\ ParseInstanceID(inst.id).err = "nil"
  /\ inst.id = DesiredID(inst)
  /\ rspec.template = BuiltTemplate

ConfigureStep == pc = "updateDatabaseConfiguration" /\ pc' # pc

\* C35: ConfigureDatabase is called only in a pass whose configured flag is
\* false, with initial = true and the cluster's current replication mode and
\* storage engine; once the call and the update of the cluster object have
\* both succeeded the flag stays set, and no later pass calls
\* ConfigureDatabase: its step returns nil, writes nothing and leaves the
\* database as it is.
C35_ConfiguredOnce ==
  [][ /\ ConfigureStep =>
           /\ (db' # db \/ lastErr' = "ConfigureError")
                => (~cluster.configured /\ ~store.configured)
           /\ db' # db =>
                db' = [ configured |-> TRUE, initial |-> TRUE,
                        replicationMode |-> cluster.replicationMode,
                        storageEngine |-> cluster.storageEngine ]
           /\ store.configured =>
                (lastErr' = "nil" /\ store' = store /\ cluster' = cluster)
      /\ store.configured => (store'.configured /\ db' = db) ]_vars

\* A later pass has reached the step after the database was configured, with
\* the storage engine the user chose, and the flag was persisted.
C35_Witness ==
  /\ pc = "updateDatabaseConfiguration"
  /\ store.configured
  /\ cluster.configured
  /\ db.initial
  /\ db.storageEngine = "memory"

\* C36: ConfigureDatabase is invoked, by updateDatabaseConfiguration alone,
\* only where the persisted ConnectionString, replication mode and storage
\* engine are non-empty, so a configured database has a mode and an engine
\* and belongs to a cluster whose coordinators were chosen.
C36_ConfiguredAfterBootstrap ==
  /\ pc = "updateDatabaseConfiguration" =>
       /\ store.connectionString # << >>
       /\ store.replicationMode # ""
       /\ store.storageEngine # ""
       /\ cluster.connectionString = store.connectionString
       /\ cluster.replicationMode = store.replicationMode
       /\ cluster.storageEngine = store.storageEngine
  /\ db.configured =>
       /\ store.connectionString # << >>
       /\ db.replicationMode # ""
       /\ db.storageEngine # ""

\* The database was configured in the pass that applied the defaults and
\* chose the coordinators.
C36_Witness ==
  /\ db.configured
  /\ db.replicationMode = "double"
  /\ db.storageEngine = "ssd"
  /\ Len(completed) = 5
  /\ store.configured
  /\ store.connectionString # << >>

\* C37 as stated: whenever the UpdateConfigMap step has reported done without
\* error, on any path, every instance of the cluster carries the hash of the
\* current shared config object in its last-applied-dynamic-conf annotation.
C37_DoneMeansEveryInstanceSynced ==
  (sync.done /\ sync.err = "nil") =>
    /\ configMap.exists
    /\ \A i \in 1..Len(instances) : instances[i].lastConf = CurrentConfHash

\* updateConfigMap returns nil to its caller.
UCMReturnsNil ==
  /\ pc \in { "updateConfigMap", "ucmJoin" }
  /\ pc' \in { "addPods", "updateDatabaseConfiguration" }

\* C38: when updateConfigMap returns without error the stored config map
\* exists and holds the desired data: cluster-file is the ConnectionString,
\* the monitor conf is empty exactly when the ConnectionString is, and
\* sidecar-conf is present; the stored object is updated (or the update
\* fails) only when its data differ from the desired data.
C38_ConfigMapHoldsDesiredData ==
  [][ /\ UCMReturnsNil =>
           /\ configMap'.exists
           /\ configMap'.data = GetConfigMap(clusterName, cluster)
           /\ configMap'.data.clusterFile = cluster.connectionString
           /\ (configMap'.data.monitorConf = << >>)
                <=> (cluster.connectionString = << >>)
           /\ "sidecarConf" \in DOMAIN configMap'.data
           /\ configMap'.data.sidecarConf # ""
      /\ (pc = "updateConfigMap" /\ configMap.exists) =>
           ((configMap' # configMap \/ lastErr' = "UpdateError")
              => configMap.data # GetConfigMap(clusterName, cluster)) ]_vars

\* C38, for UpdateConfigMap.Reconcile: a pass that reports done leaves the
\* desired data in the stored object and has updated it only when the data
\* differed.
C38_ReconcileStoresDesiredData ==
  [][ SyncStep =>
        /\ (sync'.done /\ sync'.err = "nil") =>
             /\ configMap'.exists
             /\ configMap'.data = GetConfigMap(clusterName, cluster)
        /\ (sync'.updated \/ sync'.err = "UpdateError") =>
             configMap.data # GetConfigMap(clusterName, cluster) ]_vars

\* updateConfigMap has returned nil after it replaced the data of the first
\* pass, written for an empty ConnectionString, by the data for the
\* generated one.
C38_Witness ==
  /\ pc = "updateDatabaseConfiguration"
  /\ configMap.exists
  /\ configMap.data.clusterFile = cluster.connectionString
  /\ cluster.connectionString # << >>
  /\ configMap.data.monitorConf # << >>

\* C39 as stated: an updatePodDynamicConf goroutine sends one value on its
\* signal channel and returns: it never has a further send ahead of it that
\* updateConfigMap, which receives once from each channel, will not take.
C39_OneSendPerGoroutine ==
  pc = "ucmJoin" =>
    \A t \in 1..Len(tasks) :
      /\ Len(tasks[t].sends) <= 1
      /\ ~tasks[t].more

\* C40: a pass of ReplaceMisconfiguredPods only grows PendingRemovals: every
\* entry present before the pass is present after it with the same removal
\* state, whatever has become of its instance.
C40_PendingRemovalsOnlyGrow ==
  [][ PassStep =>
        /\ DOMAIN pending \subseteq DOMAIN pending'
        /\ \A id \in DOMAIN pending : pending'[id] = pending[id] ]_vars

\* A pass has returned with two entries kept: one of an instance whose pod is
\* gone, one of an instance that has its desired identifier again and
\* another address than the one recorded.
C40_Witness ==
  /\ pass.err = "nil"
  /\ \E i, j \in 1..Len(instances) :
       /\ instances[i].id \in DOMAIN pending
       /\ ~instances[i].pod
       /\ instances[j].id \in DOMAIN pending
       /\ instances[j].pod
       /\ instances[j].id = DesiredID(instances[j])
       /\ pending[instances[j].id].address # instances[j].addr

====
